---- MODULE Spec2Model ----
(***************************************************************************)
(* SingleBrief: brief creation, sending, deletion / archiving, the         *)
(* cancellation email function, the template pages, the accounts and the   *)
(* row-level security of the tables, as state machines over the hosted     *)
(* database's tables.                                                      *)
(*                                                                         *)
(* Strings that the code splits or trims are sequences of one-character    *)
(* strings; an email address is such a sequence.                           *)
(***************************************************************************)
EXTENDS Integers, Sequences, FiniteSets, TLC

\* ---------------------------------------------------------------- bounds
MaxBriefs == 2          \* brief rows inserted in one behaviour
MaxManual == 1          \* manual-entry rows of the form
MaxFnRecipients == 3    \* length of a recipients list posted to the function
MaxTemplates == 1       \* template rows inserted in one behaviour
MaxTeams == 1           \* team rows inserted in one behaviour
MaxRequestBriefs == 1   \* brief rows inserted by direct requests in one behaviour
MaxModalTeams == 2      \* teams created through the team forms in one behaviour
MaxEvents == 2          \* change events waiting in one channel

\* ------------------------------------------------------------ constants
NumSystemTemplates == 5 \* rows of the migration's INSERT of system templates

\* ------------------------------------------------------------- universes
Sessions == {"s1", "s2"}
Users == {"u1", "u2"}
EmailA == <<"a">>
EmailB == <<"b">>
Emails == {EmailA, EmailB}
ManualEntries == {<<" ", "a">>, <<" ">>}
Titles == {"t1"}
NoBrief == 0

\* ------------------------------------------------------- sequence helpers
RECURSIVE SeqsUpTo(_, _)
SeqsUpTo(S, n) ==
  IF n = 0 THEN {<<>>}
  ELSE LET shorter == SeqsUpTo(S, n - 1)
       IN shorter \cup {Append(q, x) : q \in {r \in shorter : Len(r) = n - 1}, x \in S}

Range(q) == {q[i] : i \in 1..Len(q)}

NoDuplicates(q) == \A i, j \in 1..Len(q) : i # j => q[i] # q[j]

\* Array.prototype.map with String.prototype.trim
RECURSIVE TrimLeft(_)
TrimLeft(str) ==
  IF str # <<>> /\ Head(str) = " " THEN TrimLeft(Tail(str)) ELSE str

RECURSIVE TrimRight(_)
TrimRight(str) ==
  IF str # <<>> /\ str[Len(str)] = " "
  THEN TrimRight(SubSeq(str, 1, Len(str) - 1)) ELSE str

trim(str) == TrimRight(TrimLeft(str))

\* String.prototype.split(','): the pieces between the commas, empty pieces
\* included; the empty string splits into one empty piece.
RECURSIVE SplitFrom(_, _, _)
SplitFrom(str, i, piece) ==
  IF i > Len(str) THEN <<piece>>
  ELSE IF str[i] = "," THEN <<piece>> \o SplitFrom(str, i + 1, <<>>)
  ELSE SplitFrom(str, i + 1, Append(piece, str[i]))

split(str) == SplitFrom(str, 1, <<>>)

MapTrim(q) == [i \in 1..Len(q) |-> trim(q[i])]

NonEmpty(str) == Len(str) > 0

\* .map(email => email.trim()).filter(email => email.length > 0)
TrimAndFilter(q) == SelectSeq(MapTrim(q), NonEmpty)

\* [...new Set(recipients)]: first occurrences, in insertion order
RECURSIVE SetSpread(_)
SetSpread(q) ==
  IF q = <<>> THEN <<>>
  ELSE LET init == SetSpread(SubSeq(q, 1, Len(q) - 1))
           last == q[Len(q)]
       IN IF last \in Range(init) THEN init ELSE Append(init, last)

\* ------------------------------------------------- recipient resolution
\* a resolution in which the custom field always contributes
ResolveRecipientsCustomAlways(selectedMembers, manualMembers, customEmails) ==
  LET fromTeams == IF Len(selectedMembers) > 0 THEN selectedMembers ELSE <<>>
      fromManual == IF Len(manualMembers) > 0
                    THEN fromTeams \o TrimAndFilter(manualMembers)
                    ELSE fromTeams
      withCustom == IF customEmails # <<>>
                    THEN fromManual \o TrimAndFilter(split(customEmails))
                    ELSE fromManual
  IN SetSpread(withCustom)

\* NewBriefModal.handleSubmit: selected team members, then the manual
\* entries, the custom field only as a fallback, then the Set spread.
ResolveRecipients(selectedMembers, manualMembers, customEmails) ==
  LET fromTeams == IF Len(selectedMembers) > 0 THEN selectedMembers ELSE <<>>
      fromManual == IF Len(manualMembers) > 0
                    THEN fromTeams \o TrimAndFilter(manualMembers)
                    ELSE fromTeams
      withFallback == IF Len(fromManual) = 0 /\ customEmails # <<>>
                      THEN TrimAndFilter(split(customEmails))
                      ELSE fromManual
  IN SetSpread(withFallback)

\* The single-team NewBriefModal.handleSubmit: the selected team's members
\* as stored, else the custom field; no Set spread.
ResolveRecipientsSingleTeam(teamSelected, teamMembers, customEmails) ==
  IF teamSelected THEN teamMembers
  ELSE IF customEmails # <<>> THEN TrimAndFilter(split(customEmails))
  ELSE <<>>

\* What is typed into the custom email field: nothing, blanks and commas
\* only, one address, the same address twice, two addresses.
CustomInputs ==
  {<<>>, <<" ", ",">>, <<" ", "a", " ">>, <<"a", ",", "a">>,
   <<"a", ",", " ", "b">>}

\* The members lists of the user's teams: no member, one member, two
\* members, and the same address entered twice (the team forms store the
\* list as entered).
TeamMembers ==
  {<<>>, <<EmailA>>, <<EmailA, EmailB>>, <<EmailA, EmailA>>}

\* Form states of the multi-team modal: the selection that handleTeamSelect
\* builds from a team (a Set spread of its members), manual rows as typed,
\* the custom field as typed.
FormInputs ==
  [selectedMembers : {<<>>} \cup {SetSpread(m) : m \in TeamMembers},
   manualMembers : SeqsUpTo(ManualEntries, MaxManual),
   customEmails : CustomInputs]

\* Form states of the single-team modal: choosing a team clears the custom
\* field and typing into the custom field clears the team.
SingleTeamFormInputs ==
  [teamSelected : {TRUE}, teamMembers : TeamMembers,
   customEmails : {<<>>}]
  \cup
  [teamSelected : {FALSE}, teamMembers : {<<>>},
   customEmails : CustomInputs]

SubmittedRecipients ==
  {ResolveRecipients(f.selectedMembers, f.manualMembers, f.customEmails) :
     f \in FormInputs}

SubmittedRecipientsSingleTeam ==
  {ResolveRecipientsSingleTeam(f.teamSelected, f.teamMembers, f.customEmails) :
     f \in SingleTeamFormInputs}

\* ------------------------------------------- send-brief-cancellation
NoBody ==
  [success |-> FALSE, hasError |-> FALSE, briefId |-> NoBrief, briefTitle |-> "",
   totalRecipients |-> 0, successful |-> 0, failed |-> 0, results |-> <<>>]

\* The per-recipient callback: the send inside its own try / catch.
sendOne(email, throws) ==
  IF throws THEN [email |-> email, success |-> FALSE]
  ELSE [email |-> email, success |-> TRUE]

CountSuccess(results) == Cardinality({i \in 1..Len(results) : results[i].success})

CountFailure(results) == Cardinality({i \in 1..Len(results) : ~results[i].success})

\* a handler whose callback has no try / catch of its own: the first
\* throwing send rejects Promise.all
handlerWithoutCatch(req, sendThrows) ==
  IF req.method = "OPTIONS"
  THEN [status |-> 200, hasBody |-> FALSE, body |-> NoBody, sends |-> <<>>]
  ELSE IF ~req.parses \/ ~req.isList \/ \E i \in 1..Len(req.recipients) : sendThrows[i]
  THEN [status |-> 500, hasBody |-> TRUE,
        body |-> [NoBody EXCEPT !.hasError = TRUE],
        sends |-> IF req.parses /\ req.isList THEN req.recipients ELSE <<>>]
  ELSE LET recipients == req.recipients
           results == [i \in 1..Len(recipients) |-> sendOne(recipients[i], FALSE)]
       IN [status |-> 200, hasBody |-> TRUE,
           body |-> [success |-> TRUE, hasError |-> FALSE,
                     briefId |-> req.briefId, briefTitle |-> req.briefTitle,
                     totalRecipients |-> Len(recipients),
                     successful |-> CountSuccess(results),
                     failed |-> CountFailure(results),
                     results |-> results],
           sends |-> recipients]

\* a handler that reports success only if no send failed
handlerSuccessIfNoneFailed(req, sendThrows) ==
  IF req.method = "OPTIONS"
  THEN [status |-> 200, hasBody |-> FALSE, body |-> NoBody, sends |-> <<>>]
  ELSE IF ~req.parses \/ ~req.isList
  THEN [status |-> 500, hasBody |-> TRUE,
        body |-> [NoBody EXCEPT !.hasError = TRUE], sends |-> <<>>]
  ELSE LET recipients == req.recipients
           results == [i \in 1..Len(recipients) |->
                         sendOne(recipients[i], sendThrows[i])]
       IN [status |-> 200, hasBody |-> TRUE,
           body |-> [success |-> CountFailure(results) = 0, hasError |-> FALSE,
                     briefId |-> req.briefId, briefTitle |-> req.briefTitle,
                     totalRecipients |-> Len(recipients),
                     successful |-> CountSuccess(results),
                     failed |-> CountFailure(results),
                     results |-> results],
           sends |-> recipients]

\* A request is [method, parses, isList, briefId, briefTitle, recipients];
\* sendThrows[i] tells whether resend.emails.send throws for entry i.
\* The result carries the emails for which a send was attempted.
handler(req, sendThrows) ==
  IF req.method = "OPTIONS"
  THEN [status |-> 200, hasBody |-> FALSE, body |-> NoBody, sends |-> <<>>]
  ELSE IF ~req.parses \/ ~req.isList
  THEN [status |-> 500, hasBody |-> TRUE,
        body |-> [NoBody EXCEPT !.hasError = TRUE], sends |-> <<>>]
  ELSE LET recipients == req.recipients
           results == [i \in 1..Len(recipients) |->
                         sendOne(recipients[i], sendThrows[i])]
       IN [status |-> 200, hasBody |-> TRUE,
           body |-> [success |-> TRUE, hasError |-> FALSE,
                     briefId |-> req.briefId, briefTitle |-> req.briefTitle,
                     totalRecipients |-> Len(recipients),
                     successful |-> CountSuccess(results),
                     failed |-> CountFailure(results),
                     results |-> results],
           sends |-> recipients]

CancellationRequest(briefId, briefTitle, recipients) ==
  [method |-> "POST", parses |-> TRUE, isList |-> TRUE, briefId |-> briefId,
   briefTitle |-> briefTitle, recipients |-> recipients]

\* ------------------------------------------------------------ the state
VARIABLES
  user,           \* the authenticated user of each browser session
  briefs,         \* table public.briefs
  responses,      \* table public.responses
  nextBriefId,    \* number of brief ids given out so far
  selectedBrief,  \* the brief prop of each session's open BriefDetailModal
  lastRun,        \* what the handler that ran last did
  fnRequest,      \* the request send-brief-cancellation served last
  fnThrows,       \* for each entry of that request, whether its send threw
  fnResponse,     \* the response to that request, and the sends attempted
  templates,      \* table public.brief_templates
  nextTemplateId, \* number of template ids given out after the seeds
  selectedTemplate, \* the template prop of each session's TemplateEditModal
  formData,       \* the recipient fields of the open NewBriefModal
  submitted,      \* the form handleSubmit last ran on, and the list it resolved
  selectedTeams,  \* the team ids checked in the open NewBriefModal
  modalTeams,     \* the teams the NewBriefModal has fetched
  modalOpen,      \* the open prop of the NewBriefModal
  authUsers,      \* table auth.users, by id
  profiles,       \* table public.profiles
  teams,          \* table public.teams
  nextTeamId,     \* number of team ids given out so far
  returned,       \* the rows the last read request returned
  knownTokens,    \* the secure tokens each session's requester has learnt
  storedPrefs,    \* profiles.notification_preferences of the first session's user
  settingsProfile, \* the profile state of the Settings page
  notifCalls,     \* the handleNotificationChange calls, each with its closure
  layoutProfile,  \* the profile state of AppLayout and of AppSidebar
  layoutFetch,    \* the fetchProfile of each of the two, and the row it read
  channel         \* the postgres_changes channel of each of the two

briefVars == <<briefs, responses, nextBriefId, selectedBrief>>

fnVars == <<fnRequest, fnThrows, fnResponse>>

tplVars == <<templates, nextTemplateId, selectedTemplate>>

formVars == <<formData, submitted, selectedTeams, modalTeams, modalOpen>>

acctVars == <<authUsers, profiles, teams, nextTeamId, returned, knownTokens>>

settingsVars == <<storedPrefs, settingsProfile, notifCalls>>

layoutVars == <<layoutProfile, layoutFetch, channel>>

vars == <<user, briefs, responses, nextBriefId, selectedBrief, lastRun,
          fnRequest, fnThrows, fnResponse, templates, nextTemplateId,
          selectedTemplate, formData, submitted, selectedTeams, modalTeams,
          modalOpen, authUsers, profiles, teams, nextTeamId, returned,
          knownTokens, storedPrefs, settingsProfile, notifCalls, layoutProfile,
          layoutFetch, channel>>

NoTemplate == 0

NoTeam == 0

\* a user_id that is NULL, and auth.uid() of a request without a session
NoUser == ""

\* the template form as the dialogs reset it
NoForm == [name |-> "", description |-> "", prompt |-> ""]

\* no brief: the modal renders nothing and offers no action
NoSelection ==
  [id |-> NoBrief, title |-> "", recipients |-> <<>>, status |-> ""]

\* template: the id of the template row the handler addressed; by: the
\* signed-in user it ran for; form: the template form it submitted;
\* loading: the handler's in-flight flag (loading / isDeleting); session:
\* the client a direct request came from.
\* op: the handler; calls: the requests it issued, in order; toast and
\* message: the notification it showed; shown: the brief prop it ran with;
\* invoked: the bodies it passed to send-brief-cancellation; emailError:
\* the error of that invocation; sendsFailed: the failed count of the
\* function's reply.
NoRun ==
  [op |-> "none", calls |-> <<>>, toast |-> "none", message |-> "",
   shown |-> NoSelection, invoked |-> <<>>, emailError |-> FALSE,
   sendsFailed |-> 0, template |-> NoTemplate, by |-> NoUser, form |-> NoForm,
   loading |-> FALSE, session |-> ""]

\* a handler without its finally block
finallyResetSkipped(run) == run

\* finally { setLoading(false) } / finally { setIsDeleting(false) }
finallyReset(run) == [run EXCEPT !.loading = FALSE]

\* ------------------------------------------------------ table constraints
\* briefs: row-level security, auth.uid() = user_id
BriefPolicy(uid, row) == uid = row.user_id

\* responses.brief_id REFERENCES briefs(id)
ForeignKeyHolds(rows, briefTable) ==
  \A i \in 1..Len(rows) : \E b \in briefTable : b.id = rows[i].brief_id

\* the table without its UNIQUE constraint on secure_token
SecureTokenUniqueDropped(rows, table) == TRUE

\* responses.secure_token UNIQUE
SecureTokenUnique(rows, table) ==
  /\ \A i \in 1..Len(rows) : \A r \in table : r.secure_token # rows[i].secure_token
  /\ \A i, j \in 1..Len(rows) : i # j => rows[i].secure_token # rows[j].secure_token

\* the table without its UNIQUE(brief_id, recipient_email) constraint
BriefRecipientUniqueDropped(rows, table) == TRUE

\* UNIQUE(brief_id, recipient_email)
BriefRecipientUnique(rows, table) ==
  /\ \A i \in 1..Len(rows) : \A r \in table :
        ~(r.brief_id = rows[i].brief_id /\ r.recipient_email = rows[i].recipient_email)
  /\ \A i, j \in 1..Len(rows) : i # j =>
        ~(rows[i].brief_id = rows[j].brief_id
          /\ rows[i].recipient_email = rows[j].recipient_email)

\* One INSERT statement of several rows: all rows or none. The error names
\* the constraint that rejected the statement.
ResponsesInsertError(rows, table, briefTable) ==
  IF ~ForeignKeyHolds(rows, briefTable) THEN "responses_brief_id_fkey"
  ELSE IF ~SecureTokenUnique(rows, table) THEN "responses_secure_token_key"
  ELSE IF ~BriefRecipientUnique(rows, table)
  THEN "responses_brief_id_recipient_email_key"
  ELSE "none"

\* gen_random_uuid() of row i of the batch inserted for a brief: a value no
\* other row has.
RowId(briefId, i) == <<briefId, i>>

\* crypto.randomUUID() for a batch of n rows: n values not seen before, or
\* the same with one value equal to a stored token or to another value of
\* the batch.
TokenDraws(briefId, n, table) ==
  LET fresh == [i \in 1..n |-> <<briefId, i>>]
      taken == {r.secure_token : r \in table}
  IN {fresh} \cup
     UNION {{[fresh EXCEPT ![i] = t] : t \in taken \cup (Range(fresh) \ {fresh[i]})} :
              i \in 1..n}

\* a map that loses the last recipient
responseInsertsDropsLast(briefId, recipients, tokens) ==
  [i \in 1..(Len(recipients) - 1) |->
     [id |-> RowId(briefId, i), brief_id |-> briefId,
      recipient_email |-> recipients[i], secure_token |-> tokens[i],
      status |-> "pending"]]

\* recipients.map(email => ({ brief_id, recipient_email, secure_token }))
responseInserts(briefId, recipients, tokens) ==
  [i \in 1..Len(recipients) |->
     [id |-> RowId(briefId, i), brief_id |-> briefId,
      recipient_email |-> recipients[i], secure_token |-> tokens[i],
      status |-> "pending"]]

\* DELETE FROM briefs WHERE id = ..., under the policy; responses cascade.
BriefsAfterDelete(uid, briefId) ==
  {b \in briefs : ~(b.id = briefId /\ BriefPolicy(uid, b))}

\* a delete that leaves the response rows of the brief behind
ResponsesAfterDeleteNoCascade(uid, briefId) == responses

\* responses.brief_id REFERENCES briefs(id) ON DELETE CASCADE
ResponsesAfterDelete(uid, briefId) ==
  {r \in responses :
     ~\E b \in briefs : b.id = briefId /\ BriefPolicy(uid, b) /\ r.brief_id = b.id}

\* a status update that also resets the row's counters
BriefsAfterStatusResetsCounters(uid, briefId, status) ==
  {IF b.id = briefId /\ BriefPolicy(uid, b)
   THEN [b EXCEPT !.status = status, !.response_count = 0, !.total_recipients = 0]
   ELSE b : b \in briefs}

\* UPDATE briefs SET status = ... WHERE id = ..., under the policy
BriefsAfterStatus(uid, briefId, status) ==
  {IF b.id = briefId /\ BriefPolicy(uid, b) THEN [b EXCEPT !.status = status] ELSE b :
     b \in briefs}

\* --------------------------------------------------------- brief creation
\* an insert that leaves total_recipients to the column default
briefInsertDefaultTotal(id, uid, title, recipients) ==
  [id |-> id, user_id |-> uid, title |-> title, recipients |-> recipients,
   total_recipients |-> 0, status |-> "draft", response_count |-> 0]

\* The row handleSubmit inserts into briefs; response_count is the column
\* default.
briefInsert(id, uid, title, recipients) ==
  [id |-> id, user_id |-> uid, title |-> title, recipients |-> recipients,
   total_recipients |-> Len(recipients), status |-> "draft", response_count |-> 0]

\* handleSubmit from the resolved recipient list on: the empty-list
\* rejection, the briefs insert, the responses insert, the notifications.
\* Either insert can also fail for a reason of the network or the server.
createBrief(s, op, recipients) ==
  LET run == [NoRun EXCEPT !.op = op, !.loading = TRUE]
      inserted == [run EXCEPT !.calls = <<"briefs.insert", "responses.insert">>]
  IN
  \/ /\ recipients = <<>>
     /\ lastRun' = finallyReset([run EXCEPT !.toast = "error", !.message = "no recipients"])
     /\ UNCHANGED <<briefs, responses, nextBriefId>>
  \/ /\ recipients # <<>>
     /\ lastRun' = finallyReset([run EXCEPT !.calls = <<"briefs.insert">>, !.toast = "error",
                               !.message = "request failed"])
     /\ UNCHANGED <<briefs, responses, nextBriefId>>
  \/ /\ recipients # <<>>
     /\ nextBriefId < MaxBriefs
     /\ nextBriefId' = nextBriefId + 1
     /\ \E title \in Titles :
          LET brief == briefInsert(nextBriefId + 1, user[s], title, recipients)
              stored == briefs \cup {brief}
          IN /\ briefs' = stored
             /\ \/ /\ UNCHANGED responses
                   /\ lastRun' = finallyReset([inserted EXCEPT !.toast = "error",
                                                  !.message = "request failed"])
                \/ \E tokens \in TokenDraws(brief.id, Len(recipients), responses) :
                     LET rows == responseInserts(brief.id, recipients, tokens)
                         error == ResponsesInsertError(rows, responses, stored)
                     IN IF error = "none"
                        THEN /\ responses' = responses \cup Range(rows)
                             /\ lastRun' = finallyReset([inserted EXCEPT !.toast = "created"])
                        ELSE /\ UNCHANGED responses
                             /\ lastRun' = finallyReset([inserted EXCEPT !.toast = "error",
                                                            !.message = error])

\* NewBriefModal.handleSubmit (multi-team selector)
handleSubmit(s) ==
  /\ \E recipients \in SubmittedRecipients : createBrief(s, "handleSubmit", recipients)
  /\ UNCHANGED <<user, selectedBrief>>
  /\ UNCHANGED <<fnVars, tplVars, formVars, acctVars>>
  /\ UNCHANGED <<settingsVars, layoutVars>>

\* NewBriefModal.handleSubmit (single team or custom emails)
handleSubmitSingleTeam(s) ==
  /\ \E recipients \in SubmittedRecipientsSingleTeam :
        createBrief(s, "handleSubmitSingleTeam", recipients)
  /\ UNCHANGED <<user, selectedBrief>>
  /\ UNCHANGED <<fnVars, tplVars, formVars, acctVars>>
  /\ UNCHANGED <<settingsVars, layoutVars>>

\* the recipient fields of a modal that was just opened or reset
NoFormInput == [selectedMembers |-> <<>>, manualMembers |-> <<>>, customEmails |-> <<>>]

NoSubmission == [done |-> FALSE, form |-> NoFormInput, recipients |-> <<>>]

\* a handler that resets the form whatever the outcome
formAfterSubmitAlwaysReset(toast, form) == NoFormInput

\* "Reset form": setFormData, setSelectedMembers, setManualMembers after
\* the success notification only
formAfterSubmit(toast, form) == IF toast = "created" THEN NoFormInput ELSE form

\* NewBriefModal.handleSubmit on the form as it stands: the recipients are
\* resolved from the three fields, the brief is created from them, and
\* after the success notification the fields and the team selection are
\* reset and onOpenChange(false) closes the modal
handleSubmitForm(s) ==
  /\ modalOpen
  /\ LET recipients == ResolveRecipients(formData.selectedMembers,
                                         formData.manualMembers,
                                         formData.customEmails)
     IN /\ createBrief(s, "handleSubmit", recipients)
        /\ submitted' = [done |-> TRUE, form |-> formData, recipients |-> recipients]
  /\ formData' = formAfterSubmit(lastRun'.toast, formData)
  /\ selectedTeams' = IF lastRun'.toast = "created" THEN <<>> ELSE selectedTeams
  /\ modalOpen' = (lastRun'.toast # "created")
  /\ UNCHANGED <<user, selectedBrief, modalTeams>>
  /\ UNCHANGED <<fnVars, tplVars, acctVars>>
  /\ UNCHANGED <<settingsVars, layoutVars>>

\* ------------------------------------------------- the brief detail modal
\* fetchBriefs: the rows of the signed-in user
fetchBriefs(s) == {b \in briefs : b.user_id = user[s] /\ BriefPolicy(user[s], b)}

\* A click on a brief card of the list opens the detail modal on that row.
onClickBrief(s) ==
  /\ \E b \in fetchBriefs(s) :
       selectedBrief' = [selectedBrief EXCEPT ![s] =
          [id |-> b.id, title |-> b.title, recipients |-> b.recipients,
           status |-> b.status]]
  /\ lastRun' = [NoRun EXCEPT !.op = "onClickBrief"]
  /\ UNCHANGED <<user, briefs, responses, nextBriefId>>
  /\ UNCHANGED <<fnVars, tplVars, formVars, acctVars>>
  /\ UNCHANGED <<settingsVars, layoutVars>>

\* a Send that writes another status
sendUpdateCompleted == "completed"

\* .update({ status: 'sent' })
sendUpdate == "sent"

\* BriefDetailModal.handleSend: the button is rendered only while the brief
\* prop says 'draft'; the update addresses the row by id alone
handleSend(s) ==
  /\ selectedBrief[s].id # NoBrief
  /\ selectedBrief[s].status = "draft"
  /\ LET run == [NoRun EXCEPT !.op = "handleSend", !.shown = selectedBrief[s],
                              !.calls = <<"briefs.update">>]
     IN \/ /\ lastRun' = [run EXCEPT !.toast = "error",
                                     !.message = "Failed to send the brief"]
           /\ UNCHANGED <<briefs, selectedBrief>>
        \/ /\ briefs' = BriefsAfterStatus(user[s], selectedBrief[s].id, sendUpdate)
           /\ selectedBrief' = [selectedBrief EXCEPT ![s] = NoSelection]
           /\ lastRun' = [run EXCEPT !.toast = "sent"]
  /\ UNCHANGED <<user, responses, nextBriefId>>
  /\ UNCHANGED <<fnVars, tplVars, formVars, acctVars>>
  /\ UNCHANGED <<settingsVars, layoutVars>>

\* The sends of one invocation: all return, or all throw.
SendOutcomes(n) == {[i \in 1..n |-> FALSE], [i \in 1..n |-> TRUE]}

\* a body that leaves the recipients out
CancellationPayloadNoRecipients(brief) ==
  [briefId |-> brief.id, briefTitle |-> brief.title, recipients |-> <<>>]

\* body of the functions.invoke call
CancellationPayload(brief) ==
  [briefId |-> brief.id, briefTitle |-> brief.title, recipients |-> brief.recipients]

\* a handler that throws the emailError
StopsOnEmailError(emailError) == ~emailError

\* after the invoke: an emailError is logged and the handler goes on
ProceedsAfterInvoke(emailError) == TRUE

\* handleDelete / handleArchive up to the database call: the invocation of
\* send-brief-cancellation and what the handler learns from it.
invokeCancellation(s, op, netFails, sendThrows) ==
  LET brief == selectedBrief[s]
      payload == CancellationPayload(brief)
      resp == handler(CancellationRequest(payload.briefId, payload.briefTitle,
                                          payload.recipients), sendThrows)
  IN [NoRun EXCEPT !.op = op, !.shown = brief, !.loading = TRUE,
                   !.calls = <<"functions.invoke">>, !.invoked = <<payload>>,
                   !.emailError = netFails \/ resp.status # 200,
                   !.sendsFailed = IF netFails THEN 0 ELSE resp.body.failed]

\* BriefDetailModal.handleDelete; onOpenChange(false) closes the modal
handleDelete(s) ==
  /\ selectedBrief[s].id # NoBrief
  /\ \E netFails \in BOOLEAN, deleteFails \in BOOLEAN,
        sendThrows \in SendOutcomes(Len(selectedBrief[s].recipients)) :
       LET run == invokeCancellation(s, "handleDelete", netFails, sendThrows)
           id == selectedBrief[s].id
       IN IF ~ProceedsAfterInvoke(run.emailError)
          THEN /\ lastRun' = finallyReset([run EXCEPT !.toast = "error",
                                         !.message = "Failed to delete the brief"])
               /\ UNCHANGED <<briefs, responses, selectedBrief>>
          ELSE IF deleteFails
          THEN /\ lastRun' = finallyReset([run EXCEPT !.calls = Append(run.calls, "briefs.delete"),
                                         !.toast = "error",
                                         !.message = "Failed to delete the brief"])
               /\ UNCHANGED <<briefs, responses, selectedBrief>>
          ELSE /\ briefs' = BriefsAfterDelete(user[s], id)
               /\ responses' = ResponsesAfterDelete(user[s], id)
               /\ selectedBrief' = [selectedBrief EXCEPT ![s] = NoSelection]
               /\ lastRun' = finallyReset([run EXCEPT !.calls = Append(run.calls, "briefs.delete"),
                                         !.toast = "deleted"])
  /\ UNCHANGED <<user, nextBriefId>>
  /\ UNCHANGED <<fnVars, tplVars, formVars, acctVars>>
  /\ UNCHANGED <<settingsVars, layoutVars>>

\* BriefDetailModal.handleArchive; onOpenChange(false) closes the modal
handleArchive(s) ==
  /\ selectedBrief[s].id # NoBrief
  /\ \E netFails \in BOOLEAN, archiveFails \in BOOLEAN,
        sendThrows \in SendOutcomes(Len(selectedBrief[s].recipients)) :
       LET run == invokeCancellation(s, "handleArchive", netFails, sendThrows)
           id == selectedBrief[s].id
       IN IF ~ProceedsAfterInvoke(run.emailError)
          THEN /\ lastRun' = finallyReset([run EXCEPT !.toast = "error",
                                         !.message = "Failed to archive the brief"])
               /\ UNCHANGED <<briefs, selectedBrief>>
          ELSE IF archiveFails
          THEN /\ lastRun' = finallyReset([run EXCEPT !.calls = Append(run.calls, "briefs.update"),
                                         !.toast = "error",
                                         !.message = "Failed to archive the brief"])
               /\ UNCHANGED <<briefs, selectedBrief>>
          ELSE /\ briefs' = BriefsAfterStatus(user[s], id, "archived")
               /\ selectedBrief' = [selectedBrief EXCEPT ![s] = NoSelection]
               /\ lastRun' = finallyReset([run EXCEPT !.calls = Append(run.calls, "briefs.update"),
                                         !.toast = "archived"])
  /\ UNCHANGED <<user, responses, nextBriefId>>
  /\ UNCHANGED <<fnVars, tplVars, formVars, acctVars>>
  /\ UNCHANGED <<settingsVars, layoutVars>>

\* ------------------------------------- send-brief-cancellation, served
\* The requests that reach the function: a CORS preflight, a body that is
\* no JSON, a body whose recipients is no list, and well-formed bodies.
Requests ==
  {[method |-> "OPTIONS", parses |-> FALSE, isList |-> FALSE, briefId |-> NoBrief,
    briefTitle |-> "", recipients |-> <<>>],
   [method |-> "POST", parses |-> FALSE, isList |-> FALSE, briefId |-> NoBrief,
    briefTitle |-> "", recipients |-> <<>>],
   [method |-> "POST", parses |-> TRUE, isList |-> FALSE, briefId |-> 1,
    briefTitle |-> "t1", recipients |-> <<>>]}
  \cup
  {CancellationRequest(1, title, recipients) :
     title \in Titles, recipients \in SeqsUpTo(Emails, MaxFnRecipients)}

NoRequest ==
  [method |-> "", parses |-> FALSE, isList |-> FALSE, briefId |-> NoBrief,
   briefTitle |-> "", recipients |-> <<>>]

NoResponse == [status |-> 0, hasBody |-> FALSE, body |-> NoBody, sends |-> <<>>]

\* serve(handler): one request is handled
serve ==
  /\ \E req \in Requests :
       \E sendThrows \in [1..Len(req.recipients) -> BOOLEAN] :
         /\ fnRequest' = req
         /\ fnThrows' = sendThrows
         /\ fnResponse' = handler(req, sendThrows)
  /\ UNCHANGED <<user, briefVars, lastRun, tplVars, formVars, acctVars>>
  /\ UNCHANGED <<settingsVars, layoutVars>>

\* ------------------------------------------------------- brief_templates
\* the rows the migration inserts: no user_id, is_system and is_public true
SystemTemplates ==
  {[id |-> i, user_id |-> NoUser, name |-> "system", description |-> "seeded",
    prompt |-> "seeded", is_system |-> TRUE, is_public |-> TRUE] :
     i \in 1..NumSystemTemplates}

\* what a template form can hold when it is submitted
TemplateForms ==
  {[name |-> "n1", description |-> "d1", prompt |-> "p1"],
   [name |-> "n2", description |-> "", prompt |-> "p2"]}

\* "Users can view public and system templates"
TemplateSelectPolicy(uid, row) == row.is_public \/ row.is_system \/ uid = row.user_id

\* "Users can create their own templates"
TemplateInsertPolicy(uid, row) == uid = row.user_id /\ ~row.is_system

\* "Users can update their own templates": the rows an UPDATE may address,
\* and, there being no WITH CHECK, what the updated row has to satisfy
TemplateUpdatePolicy(uid, row) == uid = row.user_id /\ ~row.is_system

\* a delete policy open to every request, as the policy of responses is
TemplateDeletePolicyOpen(uid, row) == TRUE

\* "Users can delete their own templates"
TemplateDeletePolicy(uid, row) == uid = row.user_id /\ ~row.is_system

\* INSERT of one row under the policy; id and the omitted columns by default
TemplateRow(id, userId, form, isSystem, isPublic) ==
  [id |-> id, user_id |-> userId, name |-> form.name,
   description |-> form.description, prompt |-> form.prompt,
   is_system |-> isSystem, is_public |-> isPublic]

\* UPDATE ... WHERE id = ..., under the policy: the rows the policy hides
\* are not addressed, and no error is raised for them; patched maps a row
\* to the row with the SET clause applied
TemplatesAfterUpdate(uid, templateId, patched) ==
  {IF /\ t.id = templateId
      /\ TemplateUpdatePolicy(uid, t)
      /\ TemplateUpdatePolicy(uid, patched[t])
   THEN patched[t] ELSE t : t \in templates}

\* DELETE ... WHERE id = ..., under the policy
TemplatesAfterDelete(uid, templateId) ==
  {t \in templates : ~(t.id = templateId /\ TemplateDeletePolicy(uid, t))}

\* fetchTemplates: the rows the select policy shows to the session
fetchTemplates(s) == {t \in templates : TemplateSelectPolicy(user[s], t)}

tplRun(s, op, toast, templateId) ==
  [NoRun EXCEPT !.op = op, !.toast = toast, !.template = templateId,
                !.by = user[s]]

\* the insert of a template handler for the template it addressed: failing
\* for a reason of the network or the server, rejected by the policy, or
\* storing the row
insertTemplate(s, op, templateId, form, row, okToast) ==
  LET run == [tplRun(s, op, "error", templateId) EXCEPT !.form = form]
  IN
  \/ /\ lastRun' = [run EXCEPT !.message = "request failed"]
     /\ UNCHANGED <<templates, nextTemplateId>>
  \/ /\ ~TemplateInsertPolicy(user[s], row)
     /\ lastRun' = [run EXCEPT !.message = "row-level security"]
     /\ UNCHANGED <<templates, nextTemplateId>>
  \/ /\ TemplateInsertPolicy(user[s], row)
     /\ nextTemplateId < MaxTemplates
     /\ templates' = templates \cup {row}
     /\ nextTemplateId' = nextTemplateId + 1
     /\ lastRun' = [run EXCEPT !.toast = okToast]

NewTemplateId == NumSystemTemplates + nextTemplateId + 1

\* Templates.handleSubmit: the create dialog
createTemplate(s) ==
  /\ \E form \in TemplateForms :
       insertTemplate(s, "createTemplate", NoTemplate, form,
                      TemplateRow(NewTemplateId, user[s], form, FALSE, FALSE),
                      "Template created")
  /\ UNCHANGED <<user, selectedTemplate, briefVars, fnVars, formVars, acctVars>>
  /\ UNCHANGED <<settingsVars, layoutVars>>

\* Templates.handleTemplateClick: a card of either list opens the edit modal
handleTemplateClick(s) ==
  /\ \E t \in fetchTemplates(s) :
       selectedTemplate' = [selectedTemplate EXCEPT ![s] = t.id]
  /\ lastRun' = tplRun(s, "handleTemplateClick", "none", NoTemplate)
  /\ UNCHANGED <<user, templates, nextTemplateId, briefVars, fnVars, formVars, acctVars>>
  /\ UNCHANGED <<settingsVars, layoutVars>>

\* Templates.handleDelete: the button of a card of "Your Templates", the
\* rows shown that are no system templates
deleteTemplate(s) ==
  /\ \E t \in {x \in fetchTemplates(s) : ~x.is_system} :
       \/ /\ lastRun' = tplRun(s, "deleteTemplate", "error", t.id)
          /\ UNCHANGED templates
       \/ /\ templates' = TemplatesAfterDelete(user[s], t.id)
          /\ lastRun' = tplRun(s, "deleteTemplate", "Template deleted", t.id)
  /\ UNCHANGED <<user, nextTemplateId, selectedTemplate, briefVars, fnVars, formVars, acctVars>>
  /\ UNCHANGED <<settingsVars, layoutVars>>

\* is_system of the template prop: the column never changes, so the prop
\* holds what the row held when it was fetched
IsSystemTemplate(templateId) == templateId \in 1..NumSystemTemplates

\* the update both edit modals issue for a template that is no system one
updateTemplate(s, op, templateId) ==
  \E form \in TemplateForms :
    \/ /\ lastRun' = [tplRun(s, op, "error", templateId) EXCEPT
                         !.form = form, !.message = "request failed"]
       /\ UNCHANGED <<templates, nextTemplateId>>
    \/ /\ templates' = TemplatesAfterUpdate(user[s], templateId,
            [t \in templates |-> [t EXCEPT !.name = form.name,
                                         !.description = form.description,
                                         !.prompt = form.prompt]])
       /\ lastRun' = [tplRun(s, op, "Template updated", templateId) EXCEPT
                         !.form = form]
       /\ UNCHANGED nextTemplateId

\* TemplateEditModal.handleSubmit, the modal that reads the signed-in user:
\* a system template is copied into a row of the user, another is updated
editTemplate(s) ==
  /\ selectedTemplate[s] # NoTemplate
  /\ IF IsSystemTemplate(selectedTemplate[s])
     THEN \E form \in TemplateForms :
            insertTemplate(s, "editTemplate", selectedTemplate[s], form,
                           TemplateRow(NewTemplateId, user[s], form, FALSE, FALSE),
                           "Template created")
     ELSE updateTemplate(s, "editTemplate", selectedTemplate[s])
  /\ selectedTemplate' =
       IF lastRun'.toast = "error" THEN selectedTemplate
       ELSE [selectedTemplate EXCEPT ![s] = NoTemplate]
  /\ UNCHANGED <<user, briefVars, fnVars, formVars, acctVars>>
  /\ UNCHANGED <<settingsVars, layoutVars>>

\* TemplateEditModal.handleSubmit, the modal that reads no user: the copy
\* of a system template is inserted without a user_id
editTemplateNoUser(s) ==
  /\ selectedTemplate[s] # NoTemplate
  /\ IF IsSystemTemplate(selectedTemplate[s])
     THEN \E form \in TemplateForms :
            insertTemplate(s, "editTemplateNoUser", selectedTemplate[s], form,
                           TemplateRow(NewTemplateId, NoUser, form, FALSE, FALSE),
                           "Template copied")
     ELSE updateTemplate(s, "editTemplateNoUser", selectedTemplate[s])
  /\ selectedTemplate' =
       IF lastRun'.toast = "error" THEN selectedTemplate
       ELSE [selectedTemplate EXCEPT ![s] = NoTemplate]
  /\ UNCHANGED <<user, briefVars, fnVars, formVars, acctVars>>
  /\ UNCHANGED <<settingsVars, layoutVars>>

\* What a signed-in client can ask of the table besides the pages' requests:
\* an update of any row to any content, a delete of any row, an insert of
\* any row. The policies decide.
TemplatePatches ==
  [is_system : BOOLEAN, is_public : BOOLEAN]

requestUpdate(s) ==
  /\ \E t \in templates, patch \in TemplatePatches :
       /\ templates' = TemplatesAfterUpdate(user[s], t.id,
            [r \in templates |-> [r EXCEPT !.is_system = patch.is_system,
                                         !.is_public = patch.is_public]])
       /\ lastRun' = tplRun(s, "requestUpdate", "none", t.id)
  /\ UNCHANGED <<user, nextTemplateId, selectedTemplate, briefVars, fnVars, formVars, acctVars>>
  /\ UNCHANGED <<settingsVars, layoutVars>>

requestDelete(s) ==
  /\ \E t \in templates :
       /\ templates' = TemplatesAfterDelete(user[s], t.id)
       /\ lastRun' = tplRun(s, "requestDelete", "none", t.id)
  /\ UNCHANGED <<user, nextTemplateId, selectedTemplate, briefVars, fnVars, formVars, acctVars>>
  /\ UNCHANGED <<settingsVars, layoutVars>>

requestInsert(s) ==
  /\ \E form \in TemplateForms, owner \in Users \cup {NoUser}, isSystem \in BOOLEAN :
       insertTemplate(s, "requestInsert", NoTemplate, form,
                      TemplateRow(NewTemplateId, owner, form, isSystem, FALSE), "none")
  /\ UNCHANGED <<user, selectedTemplate, briefVars, fnVars, formVars, acctVars>>
  /\ UNCHANGED <<settingsVars, layoutVars>>

\* ------------------------------------------------------ accounts
\* no name in the sign-up metadata
NoName == ""

\* the email address an account signed up with
EmailOf(uid) == <<uid>>

\* a trigger that always takes the email for the name
handle_new_user_email_only(uid, name) ==
  [user_id |-> uid, name |-> EmailOf(uid), email |-> EmailOf(uid)]

\* handle_new_user: the profile row inserted for a new auth.users row,
\* name = COALESCE(raw_user_meta_data->>'name', email)
handle_new_user(uid, name) ==
  [user_id |-> uid, name |-> IF name # NoName THEN <<name>> ELSE EmailOf(uid),
   email |-> EmailOf(uid)]

\* ------------------------------------- row-level security, under requests
\* profiles: "Users can view their own profile"
ProfileSelectPolicy(uid, row) == uid = row.user_id

\* "Users can insert their own profile"
ProfileInsertPolicy(uid, row) == uid = row.user_id

\* "Users can update their own profile"
ProfileUpdatePolicy(uid, row) == uid = row.user_id

\* row-level security is enabled and no policy is defined FOR DELETE
ProfileDeletePolicy(uid, row) == FALSE

\* profiles.user_id UNIQUE
ProfileUserUnique(row, table) == \A p \in table : p.user_id # row.user_id

\* teams: "Users can view their own teams"
TeamSelectPolicy(uid, row) == uid = row.user_id

\* "Users can create their own teams"
TeamInsertPolicy(uid, row) == uid = row.user_id

\* "Users can update their own teams"
TeamUpdatePolicy(uid, row) == uid = row.user_id

\* a delete policy open to every signed-in user
TeamDeletePolicyOpen(uid, row) == TRUE

\* "Users can delete their own teams"
TeamDeletePolicy(uid, row) == uid = row.user_id

\* a policy that asks for the row's token among those the request presents
ResponsesPolicyByToken(presented, row) == row.secure_token \in presented

\* responses: "Responses accessible via secure token", FOR ALL USING (true);
\* presented: the tokens the request carries
ResponsesPolicy(presented, row) == TRUE

reqRun(op, s) == [NoRun EXCEPT !.op = op, !.by = user[s], !.session = s]

\* the members a team row is created with
TeamRow(id, uid) ==
  [id |-> id, user_id |-> uid, members |-> <<EmailA>>, member_details |-> <<>>]

\* A request of a signed-in client to a table is decided by the policies of
\* the table alone. SELECT returns the rows the policy shows; the other
\* requests return no rows.
requestSelectProfiles(s) ==
  /\ returned' = {p \in profiles : ProfileSelectPolicy(user[s], p)}
  /\ lastRun' = reqRun("requestSelectProfiles", s)
  /\ UNCHANGED <<user, briefVars, fnVars, tplVars, formVars, authUsers, profiles,
                 teams, nextTeamId, knownTokens>>
  /\ UNCHANGED <<settingsVars, layoutVars>>

\* INSERT of a profile for any user id
requestInsertProfile(s) ==
  /\ \E owner \in Users :
       LET row == handle_new_user(owner, NoName)
       IN IF /\ ProfileInsertPolicy(user[s], row)
             /\ ProfileUserUnique(row, profiles)
             /\ owner \in authUsers
          THEN profiles' = profiles \cup {row}
          ELSE UNCHANGED profiles
  /\ returned' = {}
  /\ lastRun' = reqRun("requestInsertProfile", s)
  /\ UNCHANGED <<user, briefVars, fnVars, tplVars, formVars, authUsers, teams,
                 nextTeamId, knownTokens>>
  /\ UNCHANGED <<settingsVars, layoutVars>>

\* UPDATE of any profile: a new name, or another user_id
requestUpdateProfile(s) ==
  /\ \E p \in profiles, owner \in Users, name \in {"n"} :
       \E patched \in {[p EXCEPT !.name = <<name>>], [p EXCEPT !.user_id = owner]} :
         IF /\ ProfileUpdatePolicy(user[s], p)
            /\ ProfileUpdatePolicy(user[s], patched)
            /\ ProfileUserUnique(patched, profiles \ {p})
         THEN profiles' = (profiles \ {p}) \cup {patched}
         ELSE UNCHANGED profiles
  /\ returned' = {}
  /\ lastRun' = reqRun("requestUpdateProfile", s)
  /\ UNCHANGED <<user, briefVars, fnVars, tplVars, formVars, authUsers, teams,
                 nextTeamId, knownTokens>>
  /\ UNCHANGED <<settingsVars, layoutVars>>

\* DELETE FROM profiles WHERE user_id = ..., under the policies
ProfilesAfterDelete(uid, userId) ==
  {p \in profiles : ~(p.user_id = userId /\ ProfileDeletePolicy(uid, p))}

requestDeleteProfile(s) ==
  /\ \E owner \in Users : profiles' = ProfilesAfterDelete(user[s], owner)
  /\ returned' = {}
  /\ lastRun' = reqRun("requestDeleteProfile", s)
  /\ UNCHANGED <<user, briefVars, fnVars, tplVars, formVars, authUsers, teams,
                 nextTeamId, knownTokens>>
  /\ UNCHANGED <<settingsVars, layoutVars>>

requestSelectTeams(s) ==
  /\ returned' = {t \in teams : TeamSelectPolicy(user[s], t)}
  /\ lastRun' = reqRun("requestSelectTeams", s)
  /\ UNCHANGED <<user, briefVars, fnVars, tplVars, formVars, authUsers, profiles,
                 teams, nextTeamId, knownTokens>>
  /\ UNCHANGED <<settingsVars, layoutVars>>

requestInsertTeam(s) ==
  /\ \E owner \in Users :
       LET row == TeamRow(nextTeamId + 1, owner)
       IN IF TeamInsertPolicy(user[s], row) /\ nextTeamId < MaxTeams
          THEN teams' = teams \cup {row} /\ nextTeamId' = nextTeamId + 1
          ELSE UNCHANGED <<teams, nextTeamId>>
  /\ returned' = {}
  /\ lastRun' = reqRun("requestInsertTeam", s)
  /\ UNCHANGED <<user, briefVars, fnVars, tplVars, formVars, authUsers, profiles, knownTokens>>
  /\ UNCHANGED <<settingsVars, layoutVars>>

\* UPDATE of any team: other members, or another user_id
requestUpdateTeam(s) ==
  /\ \E t \in teams, owner \in Users :
       \E patched \in {[t EXCEPT !.members = <<EmailB>>], [t EXCEPT !.user_id = owner]} :
         IF TeamUpdatePolicy(user[s], t) /\ TeamUpdatePolicy(user[s], patched)
         THEN teams' = (teams \ {t}) \cup {patched}
         ELSE UNCHANGED teams
  /\ returned' = {}
  /\ lastRun' = reqRun("requestUpdateTeam", s)
  /\ UNCHANGED <<user, briefVars, fnVars, tplVars, formVars, authUsers, profiles,
                 nextTeamId, knownTokens>>
  /\ UNCHANGED <<settingsVars, layoutVars>>

requestDeleteTeam(s) ==
  /\ \E t \in teams :
       teams' = {x \in teams : ~(x.id = t.id /\ TeamDeletePolicy(user[s], x))}
  /\ returned' = {}
  /\ lastRun' = reqRun("requestDeleteTeam", s)
  /\ UNCHANGED <<user, briefVars, fnVars, tplVars, formVars, authUsers, profiles,
                 nextTeamId, knownTokens>>
  /\ UNCHANGED <<settingsVars, layoutVars>>

requestSelectBriefs(s) ==
  /\ returned' = {b \in briefs : BriefPolicy(user[s], b)}
  /\ lastRun' = reqRun("requestSelectBriefs", s)
  /\ UNCHANGED <<user, briefVars, fnVars, tplVars, formVars, authUsers, profiles,
                 teams, nextTeamId, knownTokens>>
  /\ UNCHANGED <<settingsVars, layoutVars>>

requestInsertBrief(s) ==
  /\ \E owner \in Users, title \in Titles :
       LET row == briefInsert(nextBriefId + 1, owner, title, <<EmailA>>)
       IN IF BriefPolicy(user[s], row) /\ nextBriefId < MaxRequestBriefs
          THEN briefs' = briefs \cup {row} /\ nextBriefId' = nextBriefId + 1
          ELSE UNCHANGED <<briefs, nextBriefId>>
  /\ returned' = {}
  /\ lastRun' = reqRun("requestInsertBrief", s)
  /\ UNCHANGED <<user, responses, selectedBrief, fnVars, tplVars, formVars, authUsers, profiles, teams, nextTeamId, knownTokens>>
  /\ UNCHANGED <<settingsVars, layoutVars>>

\* UPDATE of any brief: another status, or another user_id
requestUpdateBrief(s) ==
  /\ \E b \in briefs, owner \in Users :
       \E patched \in {[b EXCEPT !.status = "sent"], [b EXCEPT !.user_id = owner]} :
         IF BriefPolicy(user[s], b) /\ BriefPolicy(user[s], patched)
         THEN briefs' = (briefs \ {b}) \cup {patched}
         ELSE UNCHANGED briefs
  /\ returned' = {}
  /\ lastRun' = reqRun("requestUpdateBrief", s)
  /\ UNCHANGED <<user, responses, nextBriefId, selectedBrief, fnVars, tplVars,
                 formVars, authUsers, profiles, teams, nextTeamId, knownTokens>>
  /\ UNCHANGED <<settingsVars, layoutVars>>

requestDeleteBrief(s) ==
  /\ \E b \in briefs :
       /\ briefs' = BriefsAfterDelete(user[s], b.id)
       /\ responses' = ResponsesAfterDelete(user[s], b.id)
  /\ returned' = {}
  /\ lastRun' = reqRun("requestDeleteBrief", s)
  /\ UNCHANGED <<user, nextBriefId, selectedBrief, fnVars, tplVars, formVars, authUsers, profiles, teams, nextTeamId, knownTokens>>
  /\ UNCHANGED <<settingsVars, layoutVars>>

\* The requests to responses carry the tokens the requester has learnt; a
\* requester learns the token of a row it inserts and of a row it reads.
requestInsertResponse(s) ==
  /\ \E b \in briefs :
       LET rows == responseInserts(b.id, <<EmailA>>, <<RowId(b.id, 1)>>)
       IN IF /\ ResponsesPolicy(knownTokens[s] \cup {rows[1].secure_token}, rows[1])
             /\ ResponsesInsertError(rows, responses, briefs) = "none"
          THEN /\ responses' = responses \cup Range(rows)
               /\ knownTokens' = [knownTokens EXCEPT ![s] = @ \cup {rows[1].secure_token}]
          ELSE UNCHANGED <<responses, knownTokens>>
  /\ returned' = {}
  /\ lastRun' = reqRun("requestInsertResponse", s)
  /\ UNCHANGED <<user, briefs, nextBriefId, selectedBrief, fnVars, tplVars, formVars,
                 authUsers, profiles, teams, nextTeamId>>
  /\ UNCHANGED <<settingsVars, layoutVars>>

requestSelectResponses(s) ==
  /\ returned' = {r \in responses : ResponsesPolicy(knownTokens[s], r)}
  /\ knownTokens' = [knownTokens EXCEPT ![s] = @ \cup {r.secure_token : r \in returned'}]
  /\ lastRun' = reqRun("requestSelectResponses", s)
  /\ UNCHANGED <<user, briefVars, fnVars, tplVars, formVars, authUsers, profiles,
                 teams, nextTeamId>>
  /\ UNCHANGED <<settingsVars, layoutVars>>

requestUpdateResponse(s) ==
  /\ \E r \in responses :
       LET patched == [r EXCEPT !.status = "completed"]
       IN IF ResponsesPolicy(knownTokens[s], r) /\ ResponsesPolicy(knownTokens[s], patched)
          THEN responses' = (responses \ {r}) \cup {patched}
          ELSE UNCHANGED responses
  /\ returned' = {}
  /\ lastRun' = reqRun("requestUpdateResponse", s)
  /\ UNCHANGED <<user, briefs, nextBriefId, selectedBrief, fnVars, tplVars, formVars,
                 authUsers, profiles, teams, nextTeamId, knownTokens>>
  /\ UNCHANGED <<settingsVars, layoutVars>>

requestDeleteResponse(s) ==
  /\ \E r \in responses :
       responses' = {x \in responses : ~(x.id = r.id /\ ResponsesPolicy(knownTokens[s], x))}
  /\ returned' = {}
  /\ lastRun' = reqRun("requestDeleteResponse", s)
  /\ UNCHANGED <<user, briefs, nextBriefId, selectedBrief, fnVars, tplVars, formVars,
                 authUsers, profiles, teams, nextTeamId, knownTokens>>
  /\ UNCHANGED <<settingsVars, layoutVars>>

\* ------------------------------------------- sign-up, sign-in, settings
acctRun(s, op, toast) == [NoRun EXCEPT !.op = op, !.toast = toast, !.by = user[s]]

\* the names typed into the sign-up form; NoName stands for a sign-up that
\* passes no name in its metadata
SignUpNames == {NoName, "n"}

\* Auth.handleSignUp: signUp(email, password, name) adds the auth.users row,
\* whose insert fires on_auth_user_created in the same transaction; the
\* address has to be verified before a session exists
handleSignUp(s) ==
  /\ user[s] = NoUser
  /\ \E uid \in Users \ authUsers, name \in SignUpNames :
       \/ /\ lastRun' = [acctRun(s, "handleSignUp", "error") EXCEPT !.by = uid]
          /\ UNCHANGED <<authUsers, profiles>>
       \/ /\ authUsers' = authUsers \cup {uid}
          /\ profiles' = profiles \cup {handle_new_user(uid, name)}
          /\ lastRun' = [acctRun(s, "handleSignUp", "Account created!") EXCEPT
                            !.by = uid, !.message = name]
  /\ returned' = {}
  /\ UNCHANGED <<user, briefVars, fnVars, tplVars, formVars, teams, nextTeamId,
                 knownTokens>>
  /\ UNCHANGED <<settingsVars, layoutVars>>

\* Auth.handleSignIn: a session for an account that exists
handleSignIn(s) ==
  /\ user[s] = NoUser
  /\ \E uid \in authUsers : user' = [user EXCEPT ![s] = uid]
  /\ lastRun' = [acctRun(s, "handleSignIn", "Welcome back!") EXCEPT !.by = user'[s]]
  /\ returned' = {}
  /\ UNCHANGED <<briefVars, fnVars, tplVars, formVars, authUsers, profiles, teams,
                 nextTeamId, knownTokens>>
  /\ UNCHANGED <<settingsVars, layoutVars>>

\* the session whose Settings page, AppLayout and AppSidebar are followed
LayoutSession == "s1"

Components == {"AppLayout", "AppSidebar"}

\* postgres_changes, event UPDATE on public.profiles with the filter
\* user_id=eq.<user.id>: every channel that is subscribed when the row of
\* its user is updated is sent the new row
postgresChanges(uid, name) ==
  [c \in Components |->
     IF channel[c].active /\ uid = user[LayoutSession]
     THEN [channel[c] EXCEPT !.queue = Append(@, name)]
     ELSE channel[c]]

\* Settings.handleUpdateProfile: update of name and email of the own row
handleUpdateProfile(s) ==
  /\ user[s] # NoUser
  /\ \E p \in profiles : p.user_id = user[s]
  /\ \/ /\ lastRun' = acctRun(s, "handleUpdateProfile", "error")
        /\ UNCHANGED <<profiles, layoutVars>>
     \/ /\ \A c \in Components : Len(channel[c].queue) < MaxEvents
        /\ profiles' = {IF p.user_id = user[s] /\ ProfileUpdatePolicy(user[s], p)
                         THEN [p EXCEPT !.name = <<"m">>] ELSE p : p \in profiles}
        /\ channel' = postgresChanges(user[s], <<"m">>)
        /\ UNCHANGED <<layoutProfile, layoutFetch>>
        /\ lastRun' = acctRun(s, "handleUpdateProfile", "Success")
  /\ returned' = {}
  /\ UNCHANGED <<user, briefVars, fnVars, tplVars, formVars, authUsers, teams,
                 nextTeamId, knownTokens>>
  /\ UNCHANGED settingsVars

\* Settings.handleDeleteAccount: the delete of the own profile row, then
\* signOut() and the notification; an error of the delete is thrown
handleDeleteAccount(s) ==
  /\ user[s] # NoUser
  /\ \/ /\ lastRun' = acctRun(s, "handleDeleteAccount", "error")
        /\ UNCHANGED <<user, profiles>>
     \/ /\ profiles' = ProfilesAfterDelete(user[s], user[s])
        /\ user' = [user EXCEPT ![s] = NoUser]
        /\ lastRun' = acctRun(s, "handleDeleteAccount", "Account Deleted")
  /\ returned' = {}
  /\ UNCHANGED <<briefVars, fnVars, tplVars, formVars, authUsers, teams, nextTeamId,
                 knownTokens>>
  /\ UNCHANGED <<settingsVars, layoutVars>>

\* CreateTeamModal.handleSubmit: the team row of the signed-in user
createTeam(s) ==
  /\ user[s] # NoUser
  /\ LET row == TeamRow(nextTeamId + 1, user[s])
     IN \/ /\ lastRun' = acctRun(s, "createTeam", "error")
           /\ UNCHANGED <<teams, nextTeamId>>
        \/ /\ TeamInsertPolicy(user[s], row)
           /\ nextTeamId < MaxTeams
           /\ teams' = teams \cup {row}
           /\ nextTeamId' = nextTeamId + 1
           /\ lastRun' = acctRun(s, "createTeam", "Team created")
  /\ returned' = {}
  /\ UNCHANGED <<user, briefVars, fnVars, tplVars, formVars, authUsers, profiles,
                 knownTokens>>
  /\ UNCHANGED <<settingsVars, layoutVars>>

\* ------------------------------------------- teams and their members
\* a row of the detailed member form; designation and topics play no part
\* in recipient resolution
MemberDetail(email) == [name |-> "", email |-> email]

\* memberDetails.map(m => m.email)
DetailEmails(details) == [i \in 1..Len(details) |-> details[i].email]

\* what the detailed tab of a team form can hold
DetailInputs ==
  {<<>>, <<MemberDetail(EmailA)>>, <<MemberDetail(EmailA), MemberDetail(EmailB)>>}

\* the forms of the CreateTeamModal: the tab shown, and what the two tabs
\* hold
CreateTeamForms ==
  [activeTab : {"simple", "detailed"}, members : TeamMembers,
   memberDetails : DetailInputs]

\* CreateTeamModal.handleSubmit: teamData
teamData(id, uid, form) ==
  [id |-> id, user_id |-> uid,
   members |-> IF form.activeTab = "simple" THEN form.members
               ELSE DetailEmails(form.memberDetails),
   member_details |-> IF form.activeTab = "detailed" THEN form.memberDetails ELSE <<>>]

\* the forms of the Teams page: the text of the simple tab and the rows of
\* the detailed tab
TeamsPageForms == [members : CustomInputs, memberDetails : DetailInputs]

\* Teams.handleSubmit: membersArray
membersArray(text) == TrimAndFilter(split(text))

\* Teams.handleSubmit: memberDetailsToSave
memberDetailsToSave(form) ==
  IF Len(form.memberDetails) > 0 THEN form.memberDetails
  ELSE [i \in 1..Len(membersArray(form.members)) |->
          MemberDetail(membersArray(form.members)[i])]

\* CreateTeamModal.handleSubmit on a form as it stands
createTeamFromForm(s) ==
  /\ user[s] # NoUser
  /\ ~modalOpen
  /\ \E form \in CreateTeamForms :
       LET row == teamData(nextTeamId + 1, user[s], form)
       IN \/ /\ lastRun' = acctRun(s, "createTeamFromForm", "error")
             /\ UNCHANGED <<teams, nextTeamId>>
          \/ /\ TeamInsertPolicy(user[s], row)
             /\ nextTeamId < MaxModalTeams
             /\ teams' = teams \cup {row}
             /\ nextTeamId' = nextTeamId + 1
             /\ lastRun' = acctRun(s, "createTeamFromForm", "Team created")
  /\ returned' = {}
  /\ UNCHANGED <<user, briefVars, fnVars, tplVars, formVars, authUsers, profiles,
                 knownTokens>>
  /\ UNCHANGED <<settingsVars, layoutVars>>

\* Teams.fetchTeams: the rows of the signed-in user
fetchTeams(s) == {t \in teams : t.user_id = user[s] /\ TeamSelectPolicy(user[s], t)}

\* Teams.handleSubmit: the update of the team being edited, or else the
\* insert of a new team, from the two tabs of the form
handleSubmitTeam(s) ==
  /\ user[s] # NoUser
  /\ ~modalOpen
  /\ \E form \in TeamsPageForms, editingTeam \in {NoTeam} \cup {t.id : t \in fetchTeams(s)} :
       LET members == membersArray(form.members)
           details == memberDetailsToSave(form)
       IN \/ /\ lastRun' = acctRun(s, "handleSubmitTeam", "error")
             /\ UNCHANGED <<teams, nextTeamId>>
          \/ /\ editingTeam # NoTeam
             /\ teams' = {IF t.id = editingTeam /\ TeamUpdatePolicy(user[s], t)
                           THEN [t EXCEPT !.members = members, !.member_details = details]
                           ELSE t : t \in teams}
             /\ UNCHANGED nextTeamId
             /\ lastRun' = acctRun(s, "handleSubmitTeam", "Team updated")
          \/ /\ editingTeam = NoTeam
             /\ nextTeamId < MaxModalTeams
             /\ LET row == [id |-> nextTeamId + 1, user_id |-> user[s],
                            members |-> members, member_details |-> details]
                IN /\ TeamInsertPolicy(user[s], row)
                   /\ teams' = teams \cup {row}
             /\ nextTeamId' = nextTeamId + 1
             /\ lastRun' = acctRun(s, "handleSubmitTeam", "Team created")
  /\ returned' = {}
  /\ UNCHANGED <<user, briefVars, fnVars, tplVars, formVars, authUsers, profiles,
                 knownTokens>>
  /\ UNCHANGED <<settingsVars, layoutVars>>

\* ------------------------------------- the team selector of the modal
\* NewBriefModal: the modal is opened and fetchTeamsAndTemplates stores the
\* user's teams
openNewBriefModal(s) ==
  /\ user[s] # NoUser
  /\ ~modalOpen
  /\ modalOpen' = TRUE
  /\ modalTeams' = fetchTeams(s)
  /\ lastRun' = acctRun(s, "openNewBriefModal", "none")
  /\ UNCHANGED <<user, briefVars, fnVars, tplVars, acctVars, formData, submitted,
                 selectedTeams>>
  /\ UNCHANGED <<settingsVars, layoutVars>>

\* handleTeamSelect / getTeamMembers: the member_details of a team when it
\* has any, else its members
teamEmails(team) ==
  IF Len(team.member_details) > 0 THEN DetailEmails(team.member_details)
  ELSE team.members

\* a selection that appends the team's emails as they are
selectTeamMembersAppended(selectedMembers, emails) == selectedMembers \o emails

\* [...new Set([...selectedMembers, ...teamEmails])]
selectTeamMembers(selectedMembers, emails) == SetSpread(selectedMembers \o emails)

\* selectedMembers.filter(email => !teamEmails.includes(email))
deselectTeamMembers(selectedMembers, emails) ==
  SelectSeq(selectedMembers, LAMBDA e : e \notin Range(emails))

\* selectedTeams.filter(id => id !== teamId)
WithoutTeam(ids, teamId) == SelectSeq(ids, LAMBDA id : id # teamId)

\* NewBriefModal.handleTeamSelect; the team's checkbox shows whether the
\* team is selected, and a click asks for the opposite
handleTeamSelect(s) ==
  /\ modalOpen
  /\ \E team \in modalTeams :
       LET selected == team.id \notin Range(selectedTeams)
       IN IF selected
          THEN /\ selectedTeams' = Append(selectedTeams, team.id)
               /\ formData' = [formData EXCEPT !.selectedMembers =
                                 selectTeamMembers(@, teamEmails(team))]
          ELSE /\ selectedTeams' = WithoutTeam(selectedTeams, team.id)
               /\ formData' = [formData EXCEPT !.selectedMembers =
                                 deselectTeamMembers(@, teamEmails(team))]
  /\ lastRun' = acctRun(s, "handleTeamSelect", "none")
  /\ UNCHANGED <<user, briefVars, fnVars, tplVars, acctVars, submitted, modalTeams,
                 modalOpen>>
  /\ UNCHANGED <<settingsVars, layoutVars>>

\* NewBriefModal.handleMemberToggle; the member checkboxes are rendered for
\* the selected teams only, each shows whether its email is selected, and
\* a click asks for the opposite
handleMemberToggle(s) ==
  /\ modalOpen
  /\ \E team \in modalTeams :
       /\ team.id \in Range(selectedTeams)
       /\ \E i \in 1..Len(teamEmails(team)) :
            LET email == teamEmails(team)[i]
                selected == email \notin Range(formData.selectedMembers)
            IN formData' = [formData EXCEPT !.selectedMembers =
                              IF selected THEN Append(@, email)
                              ELSE SelectSeq(@, LAMBDA e : e # email)]
  /\ lastRun' = acctRun(s, "handleMemberToggle", "none")
  /\ UNCHANGED <<user, briefVars, fnVars, tplVars, acctVars, submitted, selectedTeams,
                 modalTeams, modalOpen>>
  /\ UNCHANGED <<settingsVars, layoutVars>>

\* ------------------------------------------- notification preferences
Keys == {"weekly_summary", "response_alerts", "deadline_reminders"}

\* the column default of profiles.notification_preferences
DefaultPrefs == [k \in Keys |-> k # "weekly_summary"]

\* useState<UserProfile | null>(null)
NoProfile == [loaded |-> FALSE, notification_preferences |-> DefaultPrefs]

\* two calls of handleNotificationChange
Calls == {"first", "second"}

NoCall ==
  [pc |-> "idle", key |-> "", value |-> FALSE, profile |-> NoProfile,
   updatedPreferences |-> DefaultPrefs]

\* Settings.fetchProfile: the own row becomes the profile state
fetchSettingsProfile ==
  /\ user[LayoutSession] # NoUser
  /\ ~settingsProfile.loaded
  /\ settingsProfile' = [loaded |-> TRUE, notification_preferences |-> storedPrefs]
  /\ UNCHANGED <<user, lastRun, briefVars, fnVars, tplVars, formVars, acctVars,
                 storedPrefs, notifCalls, layoutVars>>

\* { ...profile.notification_preferences, [key]: value }, profile being the
\* state of the render the handler was created in
updatedPreferences(captured, key, value) ==
  [captured.notification_preferences EXCEPT ![key] = value]

\* Settings.handleNotificationChange up to its await: a switch shows the
\* preference of the rendered profile and a click asks for the opposite;
\* the update is sent with the preferences computed from that profile
handleNotificationChange(call) ==
  /\ user[LayoutSession] # NoUser
  /\ settingsProfile.loaded
  /\ notifCalls[call].pc = "idle"
  /\ \E key \in Keys :
       LET value == ~settingsProfile.notification_preferences[key]
       IN notifCalls' = [notifCalls EXCEPT ![call] =
            [pc |-> "awaiting", key |-> key, value |-> value,
             profile |-> settingsProfile,
             updatedPreferences |-> updatedPreferences(settingsProfile, key, value)]]
  /\ UNCHANGED <<user, lastRun, briefVars, fnVars, tplVars, formVars, acctVars,
                 storedPrefs, settingsProfile, layoutVars>>

\* the update of notification_preferences reaches the table, or fails and
\* the handler shows its error notification
updateNotificationPreferences(call) ==
  /\ notifCalls[call].pc = "awaiting"
  /\ \/ /\ notifCalls' = [notifCalls EXCEPT ![call].pc = "failed"]
        /\ UNCHANGED storedPrefs
     \/ /\ storedPrefs' = IF \E p \in profiles :
                               /\ p.user_id = user[LayoutSession]
                               /\ ProfileUpdatePolicy(user[LayoutSession], p)
                          THEN notifCalls[call].updatedPreferences
                          ELSE storedPrefs
        /\ notifCalls' = [notifCalls EXCEPT ![call].pc = "stored"]
  /\ UNCHANGED <<user, lastRun, briefVars, fnVars, tplVars, formVars, acctVars,
                 settingsProfile, layoutVars>>

\* Settings.handleNotificationChange after its await:
\* setProfile({ ...profile, notification_preferences: updatedPreferences })
handleNotificationChangeResumes(call) ==
  /\ notifCalls[call].pc = "stored"
  /\ settingsProfile' = [notifCalls[call].profile EXCEPT
                           !.notification_preferences = notifCalls[call].updatedPreferences]
  /\ notifCalls' = [notifCalls EXCEPT ![call].pc = "done"]
  /\ UNCHANGED <<user, lastRun, briefVars, fnVars, tplVars, formVars, acctVars,
                 storedPrefs, layoutVars>>

\* ------------------------------------- the profile of the page layout
\* useState<any>(null)
NoShown == <<>>

NoFetch == [pc |-> "idle", data |-> NoShown]

NoChannel == [active |-> FALSE, queue |-> <<>>]

\* the name column of the row of a user
StoredName(uid) ==
  IF \E p \in profiles : p.user_id = uid
  THEN (CHOOSE p \in profiles : p.user_id = uid).name
  ELSE NoShown

\* fetchProfile of the effect: the select is answered with the row as it is
\* stored at that moment
fetchProfileRead(c) ==
  /\ user[LayoutSession] # NoUser
  /\ layoutFetch[c].pc = "idle"
  /\ layoutFetch' = [layoutFetch EXCEPT ![c] =
                       [pc |-> "read", data |-> StoredName(user[LayoutSession])]]
  /\ UNCHANGED <<user, lastRun, briefVars, fnVars, tplVars, formVars, acctVars,
                 settingsVars, layoutProfile, channel>>

\* fetchProfile of the effect: the answer arrives, setProfile(data)
fetchProfileReturns(c) ==
  /\ layoutFetch[c].pc = "read"
  /\ layoutProfile' = [layoutProfile EXCEPT ![c] = layoutFetch[c].data]
  /\ layoutFetch' = [layoutFetch EXCEPT ![c].pc = "done"]
  /\ UNCHANGED <<user, lastRun, briefVars, fnVars, tplVars, formVars, acctVars,
                 settingsVars, channel>>

\* .subscribe(): the channel of the effect becomes active
subscribe(c) ==
  /\ user[LayoutSession] # NoUser
  /\ ~channel[c].active
  /\ channel' = [channel EXCEPT ![c].active = TRUE]
  /\ UNCHANGED <<user, lastRun, briefVars, fnVars, tplVars, formVars, acctVars,
                 settingsVars, layoutProfile, layoutFetch>>

\* the callback of the channel: setProfile(payload.new)
onPostgresChanges(c) ==
  /\ channel[c].queue # <<>>
  /\ layoutProfile' = [layoutProfile EXCEPT ![c] = Head(channel[c].queue)]
  /\ channel' = [channel EXCEPT ![c].queue = Tail(@)]
  /\ UNCHANGED <<user, lastRun, briefVars, fnVars, tplVars, formVars, acctVars,
                 settingsVars, layoutFetch>>

\* ------------------------------------------------------ the specification
InitBriefs ==
  /\ briefs = {}
  /\ responses = {}
  /\ nextBriefId = 0
  /\ selectedBrief = [s \in Sessions |-> NoSelection]

InitFunction ==
  /\ fnRequest = NoRequest
  /\ fnThrows = <<>>
  /\ fnResponse = NoResponse

InitForm ==
  /\ formData = NoFormInput
  /\ submitted = NoSubmission
  /\ selectedTeams = <<>>
  /\ modalTeams = {}
  /\ modalOpen = FALSE

\* the users of the sessions have signed up: the trigger has given each a
\* profile; no team yet, nothing read, no token learnt
InitAccounts ==
  /\ authUsers = {user[s] : s \in Sessions}
  /\ profiles = {handle_new_user(u, NoName) : u \in {user[s] : s \in Sessions}}
  /\ teams = {}
  /\ nextTeamId = 0
  /\ returned = {}
  /\ knownTokens = [s \in Sessions |-> {}]

InitSettings ==
  /\ storedPrefs = DefaultPrefs
  /\ settingsProfile = NoProfile
  /\ notifCalls = [c \in Calls |-> NoCall]

InitLayout ==
  /\ layoutProfile = [c \in Components |-> NoShown]
  /\ layoutFetch = [c \in Components |-> NoFetch]
  /\ channel = [c \in Components |-> NoChannel]

InitTemplates ==
  /\ templates = SystemTemplates
  /\ nextTemplateId = 0
  /\ selectedTemplate = [s \in Sessions |-> NoTemplate]

Init ==
  /\ user \in {u \in [Sessions -> Users] : u["s1"] = "u1"}
  /\ lastRun = NoRun
  /\ InitBriefs
  /\ InitFunction
  /\ InitTemplates
  /\ InitForm
  /\ InitAccounts
  /\ InitSettings
  /\ InitLayout

Next ==
  \E s \in Sessions :
    \/ handleSubmit(s)
    \/ handleSubmitSingleTeam(s)
    \/ onClickBrief(s)
    \/ handleSend(s)
    \/ handleDelete(s)
    \/ handleArchive(s)

\* brief creation, deletion and archiving by the signed-in sessions
Spec == Init /\ [][Next]_vars

NextFunction == serve

\* the cancellation function under the requests that can reach it
SpecFunction == Init /\ [][NextFunction]_vars

NextTemplates ==
  \E s \in Sessions :
    \/ createTemplate(s)
    \/ handleTemplateClick(s)
    \/ deleteTemplate(s)
    \/ editTemplate(s)
    \/ editTemplateNoUser(s)
    \/ requestUpdate(s)
    \/ requestDelete(s)
    \/ requestInsert(s)

\* the form of the first session's NewBriefModal, as it can stand when it
\* is submitted
InitFormDrawn ==
  /\ user \in {u \in [Sessions -> Users] : u["s1"] = "u1"}
  /\ lastRun = NoRun
  /\ InitBriefs
  /\ InitFunction
  /\ InitTemplates
  /\ InitAccounts
  /\ formData \in FormInputs
  /\ submitted = NoSubmission
  /\ selectedTeams \in IF formData.selectedMembers = <<>> THEN {<<>>, <<1>>} ELSE {<<1>>}
  /\ modalTeams = {}
  /\ modalOpen = TRUE
  /\ InitSettings
  /\ InitLayout

NextForm == handleSubmitForm("s1")

\* recipient resolution: handleSubmit over the forms that can be submitted
SpecForm == InitFormDrawn /\ [][NextForm]_vars

NextRequests ==
  \E s \in Sessions :
    \/ requestSelectProfiles(s)
    \/ requestInsertProfile(s)
    \/ requestUpdateProfile(s)
    \/ requestDeleteProfile(s)
    \/ requestSelectTeams(s)
    \/ requestInsertTeam(s)
    \/ requestUpdateTeam(s)
    \/ requestDeleteTeam(s)
    \/ requestSelectBriefs(s)
    \/ requestInsertBrief(s)
    \/ requestUpdateBrief(s)
    \/ requestDeleteBrief(s)
    \/ requestInsertResponse(s)
    \/ requestSelectResponses(s)
    \/ requestUpdateResponse(s)
    \/ requestDeleteResponse(s)

\* the tables under the requests of signed-in clients
SpecRequests == Init /\ [][NextRequests]_vars

\* nobody has signed up
InitSignedOut ==
  /\ user = [s \in Sessions |-> NoUser]
  /\ lastRun = NoRun
  /\ InitBriefs
  /\ InitFunction
  /\ InitTemplates
  /\ InitForm
  /\ authUsers = {}
  /\ profiles = {}
  /\ teams = {}
  /\ nextTeamId = 0
  /\ returned = {}
  /\ knownTokens = [s \in Sessions |-> {}]
  /\ InitSettings
  /\ InitLayout

NextAccounts ==
  \E s \in Sessions :
    \/ handleSignUp(s)
    \/ handleSignIn(s)
    \/ handleUpdateProfile(s)
    \/ handleDeleteAccount(s)
    \/ createTeam(s)
    \/ user[s] # NoUser /\ handleSubmit(s)
    \/ requestInsertProfile(s)
    \/ requestDeleteProfile(s)

\* accounts from sign-up to account deletion, with the data they own
SpecAccounts == InitSignedOut /\ [][NextAccounts]_vars

\* the template pages and the requests the policies have to withstand
SpecTemplates == Init /\ [][NextTemplates]_vars

NextTeams ==
  \/ createTeamFromForm("s1")
  \/ handleSubmitTeam("s1")
  \/ openNewBriefModal("s1")
  \/ handleTeamSelect("s1")
  \/ handleMemberToggle("s1")

\* the teams of a user from the team forms to the selector of the modal
SpecTeams == Init /\ [][NextTeams]_vars

NextNotifications ==
  \/ fetchSettingsProfile
  \/ \E call \in Calls :
       \/ handleNotificationChange(call)
       \/ updateNotificationPreferences(call)
       \/ handleNotificationChangeResumes(call)

\* the notification switches of the Settings page, two calls in flight
SpecNotifications == Init /\ [][NextNotifications]_vars

NextProfileSync ==
  \/ \E s \in Sessions : handleUpdateProfile(s)
  \/ \E c \in Components :
       \/ fetchProfileRead(c)
       \/ fetchProfileReturns(c)
       \/ subscribe(c)
       \/ onPostgresChanges(c)

\* Requests are answered, subscriptions become active and change events
\* are delivered; nothing makes the user save the profile.
FairProfileSync ==
  \A c \in Components :
    /\ WF_vars(fetchProfileRead(c))
    /\ WF_vars(fetchProfileReturns(c))
    /\ WF_vars(subscribe(c))
    /\ WF_vars(onPostgresChanges(c))

\* the profile of the layout while the profile is saved on the Settings page
SpecProfileSync == Init /\ [][NextProfileSync]_vars /\ FairProfileSync

\* ------------------------------------------------------------ the claims
SubmitOps == {"handleSubmit", "handleSubmitSingleTeam"}

CancelOps == {"handleDelete", "handleArchive"}

ResponsesOf(briefId) == {r \in responses : r.brief_id = briefId}

\* the brief row the last handleSubmit inserted
NewBrief == CHOOSE b \in briefs : b.id = nextBriefId

BriefInserted ==
  /\ lastRun.op \in SubmitOps
  /\ lastRun.calls = <<"briefs.insert", "responses.insert">>

\* C1: when handleSubmit has completed successfully for a list of N distinct
\* emails, the new brief has exactly N response rows, one per recipient
\* email, with pairwise distinct secure tokens.
C1_OneResponsePerRecipient ==
  (lastRun.op \in SubmitOps /\ lastRun.toast = "created") =>
     /\ \E b \in briefs : b.id = nextBriefId
     /\ NoDuplicates(NewBrief.recipients) =>
          /\ Cardinality(ResponsesOf(NewBrief.id)) = Len(NewBrief.recipients)
          /\ \A i \in 1..Len(NewBrief.recipients) :
               Cardinality({r \in ResponsesOf(NewBrief.id) :
                              r.recipient_email = NewBrief.recipients[i]}) = 1
          /\ \A r1, r2 \in ResponsesOf(NewBrief.id) :
               r1.id # r2.id => r1.secure_token # r2.secure_token

C1_Witness ==
  /\ lastRun.op \in SubmitOps /\ lastRun.toast = "created"
  /\ Len(NewBrief.recipients) = 2
  /\ NoDuplicates(NewBrief.recipients)
  /\ Cardinality(ResponsesOf(NewBrief.id)) = 2

\* C2: whenever a brief is created from recipients in which an email occurs
\* more than once and no request fails for a reason of the network or of a
\* token collision, the brief has as many response rows as there are
\* distinct emails.
C2_RowsForDistinctEmails ==
  (BriefInserted /\ lastRun.message \notin {"request failed", "responses_secure_token_key"}) =>
     Cardinality(ResponsesOf(NewBrief.id)) = Cardinality(Range(NewBrief.recipients))

\* C3: there is never more than one response row with the same
\* (brief_id, recipient_email) pair.
C3_OneRowPerBriefAndRecipient ==
  \A r1, r2 \in responses :
    (r1.brief_id = r2.brief_id /\ r1.recipient_email = r2.recipient_email) => r1 = r2

C3_Witness ==
  /\ lastRun.message = "responses_brief_id_recipient_email_key"
  /\ \E r \in responses : r.recipient_email \in Range(NewBrief.recipients)

\* C4: no two response rows, of the same brief or of different briefs and
\* users, hold the same secure_token.
C4_SecureTokensUnique ==
  \A r1, r2 \in responses : r1.secure_token = r2.secure_token => r1 = r2

C4_Witness ==
  \E r1, r2 \in responses, b1, b2 \in briefs :
    /\ b1.id = r1.brief_id /\ b2.id = r2.brief_id
    /\ b1.user_id # b2.user_id
    /\ \E r3 \in responses : r3.brief_id = r1.brief_id /\ r3 # r1

\* C5: when the brief insert succeeds and the responses insert fails,
\* handleSubmit shows an error notification and leaves the brief row stored
\* with total_recipients = N and without response rows; it issues no other
\* request (no compensating delete, no retry).
C5_BriefStaysWithoutResponses ==
  (BriefInserted /\ lastRun.toast # "created") =>
     /\ lastRun.toast = "error"
     /\ \E b \in briefs : b.id = nextBriefId
     /\ NewBrief.total_recipients = Len(NewBrief.recipients)
     /\ NewBrief.total_recipients > 0
     /\ ResponsesOf(NewBrief.id) = {}

C5_Witness ==
  /\ BriefInserted /\ lastRun.toast = "error"
  /\ NewBrief.total_recipients = 2
  /\ ResponsesOf(NewBrief.id) = {}

\* C6: handleDelete and handleArchive invoke send-brief-cancellation exactly
\* once, before the delete or the status update is issued, with the id of
\* the brief and the title and recipient list stored for that brief.
C6_CancellationBeforeDelete ==
  [][lastRun'.op \in CancelOps =>
       /\ Len(lastRun'.invoked) = 1
       /\ lastRun'.calls[1] = "functions.invoke"
       /\ \A i \in 2..Len(lastRun'.calls) : lastRun'.calls[i] # "functions.invoke"
       /\ lastRun'.invoked[1].briefId = lastRun'.shown.id
       /\ \A b \in briefs : b.id = lastRun'.invoked[1].briefId =>
            /\ lastRun'.invoked[1].briefTitle = b.title
            /\ lastRun'.invoked[1].recipients = b.recipients]_vars

C6_Witness ==
  /\ lastRun.op = "handleDelete" /\ lastRun.toast = "deleted"
  /\ lastRun.calls = <<"functions.invoke", "briefs.delete">>
  /\ Len(lastRun.invoked[1].recipients) = 2

\* C7: handleDelete and handleArchive issue the delete / status update
\* whether or not the invocation returned an error and whatever the
\* per-recipient results of the function were.
C7_ProceedsRegardless ==
  /\ lastRun.op = "handleDelete" =>
       lastRun.calls = <<"functions.invoke", "briefs.delete">>
  /\ lastRun.op = "handleArchive" =>
       lastRun.calls = <<"functions.invoke", "briefs.update">>

C7_Witness ==
  /\ lastRun.op = "handleDelete" /\ lastRun.toast = "deleted"
  /\ lastRun.emailError
  /\ lastRun.shown.id \notin {b.id : b \in briefs}

WellFormed(req) == req.method = "POST" /\ req.parses /\ req.isList

\* C8: for a well-formed request with a recipients list of length n the
\* function attempts one send per entry, whether or not other sends fail,
\* and responds 200 with totalRecipients = n, n results and
\* successful + failed = n.
C8_OneSendPerRecipient ==
  WellFormed(fnRequest) =>
    LET n == Len(fnRequest.recipients)
        body == fnResponse.body
    IN /\ fnResponse.sends = fnRequest.recipients
       /\ fnResponse.status = 200
       /\ body.totalRecipients = n
       /\ Len(body.results) = n
       /\ body.successful + body.failed = n
       /\ \A i \in 1..n :
            /\ body.results[i].email = fnRequest.recipients[i]
            /\ body.results[i].success = ~fnThrows[i]

C8_Witness ==
  /\ WellFormed(fnRequest)
  /\ Len(fnRequest.recipients) = 3
  /\ fnThrows = <<TRUE, FALSE, TRUE>>
  /\ fnResponse.body.failed = 2

\* C9: the function responds 500 with success = false and an error only
\* when the body cannot be parsed or recipients is no list; failed sends,
\* even all of them, still give 200 with success = true; a preflight is
\* answered without any send.
C9_ErrorOnlyOutsideSends ==
  /\ fnResponse.status = 500 =>
       /\ fnRequest.method = "POST"
       /\ ~fnRequest.parses \/ ~fnRequest.isList
       /\ ~fnResponse.body.success
       /\ fnResponse.body.hasError
  /\ WellFormed(fnRequest) => fnResponse.status = 200 /\ fnResponse.body.success
  /\ fnRequest.method = "OPTIONS" => fnResponse.sends = <<>> /\ fnResponse.status # 500

C9_Witness ==
  /\ WellFormed(fnRequest)
  /\ Len(fnRequest.recipients) = 2
  /\ fnThrows = <<TRUE, TRUE>>
  /\ fnResponse.status = 200

\* C10: no sequence of template operations by any user updates or deletes a
\* brief_templates row whose is_system is true: the system rows are, in
\* every reachable state, the rows the migration seeded, unchanged.
C10_SystemTemplatesUnchanged ==
  {t \in templates : t.is_system \/ t.id \in 1..NumSystemTemplates} = SystemTemplates

C10_Witness ==
  /\ lastRun.op \in {"requestDelete", "requestUpdate"}
  /\ lastRun.template \in 1..NumSystemTemplates
  /\ \E t \in templates : ~t.is_system /\ t.user_id = "u1"

EditOps == {"editTemplate", "editTemplateNoUser"}

\* a submit of an edit modal, opened on a system template, whose insert did
\* not fail for a reason of the network or the server
ForkSubmitted(ops) ==
  /\ lastRun'.op \in ops
  /\ IsSystemTemplate(lastRun'.template)
  /\ lastRun'.message # "request failed"

ForkCreatesOwnedCopy(ops) ==
  ForkSubmitted(ops) =>
    /\ \E row \in templates' :
         /\ row \notin templates
         /\ templates' = templates \cup {row}
         /\ ~row.is_system /\ ~row.is_public
         /\ row.user_id = lastRun'.by
         /\ row.name = lastRun'.form.name
         /\ row.description = lastRun'.form.description
         /\ row.prompt = lastRun'.form.prompt
    /\ \E t \in templates' : t.id = lastRun'.template /\ t \in SystemTemplates

\* C11: submitting the template edit modal for a system template creates
\* exactly one new brief_templates row with is_system = false and
\* is_public = false, owned by the submitting user and carrying the form's
\* name, description and prompt, and leaves the system template unchanged.
C11_ForkCreatesOwnedCopy == [][ForkCreatesOwnedCopy(EditOps)]_vars

\* the same of the edit modal that reads the signed-in user
C11_ForkWithUserCreatesOwnedCopy == [][ForkCreatesOwnedCopy({"editTemplate"})]_vars

C11_ForkWithUserWitness ==
  /\ lastRun.op = "editTemplate" /\ lastRun.toast = "Template created"
  /\ IsSystemTemplate(lastRun.template)
  /\ lastRun.by = "u2"
  /\ \E t \in templates : t.user_id = "u2" /\ t.name = lastRun.form.name

\* draft -> sent -> {in_progress, archived} -> completed / archived
LifecycleEdges ==
  {<<"draft", "sent">>, <<"sent", "in_progress">>, <<"sent", "archived">>,
   <<"in_progress", "completed">>, <<"in_progress", "archived">>,
   <<"archived", "completed">>, <<"completed", "archived">>}

BriefIds == {b.id : b \in briefs}

\* C16, as claimed: every brief starts as 'draft' and every status change,
\* also one issued from a modal that holds an outdated copy of the brief,
\* is an edge of the lifecycle.
C16_StatusFollowsLifecycle ==
  [][\A c \in briefs' :
       /\ c.id \notin BriefIds => c.status = "draft"
       /\ \A b \in briefs :
            (b.id = c.id /\ b.status # c.status) =>
               <<b.status, c.status>> \in LifecycleEdges]_vars

\* C16, amended: every brief starts as 'draft'; a status changes only to
\* 'sent', by a Send issued from a modal whose copy says 'draft', or to
\* 'archived', by an Archive, whatever status the row holds; no operation
\* writes 'in_progress' or 'completed'.
C16_StatusWrittenUnguarded ==
  [][\A c \in briefs' :
       /\ c.id \notin BriefIds => c.status = "draft"
       /\ \A b \in briefs :
            (b.id = c.id /\ b.status # c.status) =>
               \/ /\ c.status = "sent"
                  /\ lastRun'.op = "handleSend"
                  /\ lastRun'.shown.id = c.id
                  /\ lastRun'.shown.status = "draft"
               \/ /\ c.status = "archived"
                  /\ lastRun'.op = "handleArchive"
                  /\ lastRun'.shown.id = c.id]_vars

\* an Archive has run, and a modal still offers Send for the archived brief
C16_Witness ==
  /\ lastRun.op = "handleArchive" /\ lastRun.toast = "archived"
  /\ \E s \in Sessions : \E b \in briefs :
       /\ selectedBrief[s].id = b.id
       /\ selectedBrief[s].status = "draft"
       /\ b.status = "archived"

\* C17: response_count is 0 when a brief is created, and no operation
\* changes the response_count or the total_recipients of an existing brief.
C17_CountersNeverChange ==
  [][\A c \in briefs' :
       /\ c.id \notin BriefIds => c.response_count = 0
       /\ \A b \in briefs :
            b.id = c.id => /\ c.response_count = b.response_count
                           /\ c.total_recipients = b.total_recipients]_vars

C17_Witness ==
  /\ lastRun.op \in {"handleSend", "handleArchive"}
  /\ lastRun.toast \in {"sent", "archived"}
  /\ \E b \in briefs :
       /\ b.id = lastRun.shown.id /\ b.status \in {"sent", "archived"}
       /\ b.total_recipients = 2 /\ b.response_count = 0
  /\ Cardinality(briefs) = 2

\* C18: no insert, delete or update is issued twice by one run of
\* handleSubmit, handleDelete or handleArchive; a run whose call fails shows
\* the one error notification; every run, successful, rejected early or
\* failed, ends with its in-flight flag false.
C18_NoRetryAndFlagReset ==
  lastRun.op \in SubmitOps \cup CancelOps =>
    /\ ~lastRun.loading
    /\ NoDuplicates(lastRun.calls)
    /\ lastRun.toast \in {"error", "created", "deleted", "archived"}
    /\ lastRun.toast = "error" <=> lastRun.message # ""

C18_Witness ==
  /\ lastRun.op = "handleSubmit" /\ lastRun.toast = "error"
  /\ lastRun.calls = <<"briefs.insert", "responses.insert">>
  /\ ~lastRun.loading
  /\ \E b \in briefs : b.id = nextBriefId /\ ResponsesOf(b.id) = {}

\* the emails the team selection and the manual entries yield
PrimaryEmails(f) ==
  Range(f.selectedMembers)
    \cup ({trim(f.manualMembers[i]) : i \in 1..Len(f.manualMembers)} \ {<<>>})

\* the emails of the custom field: its pieces between commas, trimmed, the
\* empty ones dropped
CustomEmails(f) ==
  {trim(p) : p \in Range(split(f.customEmails))} \ {<<>>}

\* C19: the recipient list is the distinct emails among the selected team
\* members and the trimmed, non-empty manual entries; the custom field
\* contributes, split on commas, trimmed and without empty entries, if and
\* only if those two sources yield no email at all.
C19_CustomFieldOnlyAsFallback ==
  submitted.done =>
    /\ NoDuplicates(submitted.recipients)
    /\ Range(submitted.recipients) =
         IF PrimaryEmails(submitted.form) # {}
         THEN PrimaryEmails(submitted.form)
         ELSE CustomEmails(submitted.form)

\* a blank manual row and an address in the custom field: the custom field
\* is hidden, and it is what the brief is created from
C19_Witness ==
  /\ submitted.done
  /\ submitted.form.manualMembers = <<<<" ">>>>
  /\ submitted.form.selectedMembers = <<>>
  /\ submitted.form.customEmails = <<"a", ",", " ", "b">>
  /\ submitted.recipients = <<EmailA, EmailB>>
  /\ lastRun.toast = "created"
  /\ \E b \in briefs : b.recipients = <<EmailA, EmailB>>

OwnedReads == {"requestSelectProfiles", "requestSelectTeams", "requestSelectBriefs"}

OwnedRequests ==
  OwnedReads \cup
  {"requestInsertProfile", "requestUpdateProfile", "requestDeleteProfile",
   "requestInsertTeam", "requestUpdateTeam", "requestDeleteTeam",
   "requestInsertBrief", "requestUpdateBrief", "requestDeleteBrief"}

\* the rows of profiles, teams and briefs that a step removes, adds or
\* replaces (old and new version)
RowsTouched ==
  (profiles \ profiles') \cup (profiles' \ profiles)
    \cup (teams \ teams') \cup (teams' \ teams)
    \cup (briefs \ briefs') \cup (briefs' \ briefs)

\* C12: a request of an authenticated user reads, updates or deletes a
\* profile, team or brief row only if the row's user_id is the user's id, and
\* inserts such a row only with the user's own id; rows of another user are
\* never returned to the user nor changed.
C12_OwnRowsOnly ==
  [][lastRun'.op \in OwnedRequests =>
       /\ \A r \in RowsTouched : r.user_id = lastRun'.by
       /\ lastRun'.op \in OwnedReads => \A r \in returned' : r.user_id = lastRun'.by]_vars

\* a team has survived the delete request of another user, and a user has
\* renamed the own profile
C12_Witness ==
  /\ lastRun.op = "requestDeleteTeam"
  /\ \E t \in teams : t.user_id # lastRun.by
  /\ \E p \in profiles : p.name = <<"n">> /\ p.user_id = lastRun.by
  /\ \E b \in briefs : b.user_id # lastRun.by

\* C13: a response row is read or modified only by a requester who knows
\* the row's secure token, whoever the requester is signed in as: a
\* requester who does not know the token can neither read nor modify it.
C13_AccessOnlyWithToken ==
  [][/\ lastRun'.op = "requestSelectResponses" =>
          \A r \in returned' : r.secure_token \in knownTokens[lastRun'.session]
     /\ lastRun'.op \in {"requestUpdateResponse", "requestDeleteResponse"} =>
          \A r \in responses \ responses' :
             r.secure_token \in knownTokens[lastRun'.session]]_vars

ProfilesOf(uid) == {p \in profiles : p.user_id = uid}

\* C14: every user created by sign-up has exactly one profile row from the
\* moment of sign-up on, with the name supplied at sign-up or else the
\* email at that moment, and no two profile rows ever share a user_id.
C14_OneProfilePerUser ==
  [][/\ \A uid \in authUsers' : Cardinality({p \in profiles' : p.user_id = uid}) = 1
     /\ \A p, q \in profiles' : p.user_id = q.user_id => p = q
     /\ (lastRun'.op = "handleSignUp" /\ lastRun'.toast # "error") =>
          /\ lastRun'.by \in authUsers' \ authUsers
          /\ \E p \in profiles' \ profiles :
               /\ p.user_id = lastRun'.by
               /\ p.email = EmailOf(lastRun'.by)
               /\ p.name = IF lastRun'.message # NoName
                           THEN <<lastRun'.message>> ELSE p.email]_vars

\* both users have signed up, one with a name and one without, and a
\* second profile for one of them has been asked for
C14_Witness ==
  /\ authUsers = Users
  /\ \E p \in profiles : p.name = p.email
  /\ \E p \in profiles : p.name = <<"n">>
  /\ lastRun.op = "requestInsertProfile"
  /\ lastRun.by # NoUser

AccountDeleted ==
  lastRun.op = "handleDeleteAccount" /\ lastRun.toast = "Account Deleted"

\* C15: after an account deletion that completes without error, no profile
\* row of that user exists.
C15_NoProfileAfterDeletion ==
  AccountDeleted => ProfilesOf(lastRun.by) = {}

\* C20: after an account deletion that reports success, none of the user's
\* briefs, responses or teams remain stored.
C20_NoDataAfterDeletion ==
  AccountDeleted =>
    /\ \A b \in briefs : b.user_id # lastRun.by
    /\ \A t \in teams : t.user_id # lastRun.by
    /\ \A r \in responses : \A b \in briefs :
         b.id = r.brief_id => b.user_id # lastRun.by

\* the cancellation emails of the last handleDelete / handleArchive went out
CancellationSent ==
  /\ lastRun.op \in CancelOps
  /\ ~lastRun.loading
  /\ Len(lastRun.invoked) = 1
  /\ lastRun.invoked[1].recipients # <<>>
  /\ ~lastRun.emailError
  /\ lastRun.sendsFailed = 0

\* C21: whenever handleDelete or handleArchive has invoked
\* send-brief-cancellation and has finished, the brief row is gone (after
\* handleDelete) or gone or of status 'archived' (after handleArchive).
C21_CancelledOnlyIfRemoved ==
  CancellationSent =>
    \A b \in briefs : b.id = lastRun.shown.id =>
      /\ lastRun.op = "handleArchive"
      /\ b.status = "archived"

\* C22: every response row's brief_id refers to an existing brief, and a
\* delete through handleDelete removes all response rows of the deleted
\* brief and no response row of any other brief.
C22_ResponsesFollowTheirBrief ==
  [][/\ \A r \in responses' : \E b \in briefs' : b.id = r.brief_id
     /\ (lastRun'.op = "handleDelete" /\ lastRun'.toast = "deleted") =>
          /\ \A b \in briefs' : b.id # lastRun'.shown.id
          /\ responses' = {r \in responses : r.brief_id # lastRun'.shown.id}]_vars

\* a brief with two response rows has been deleted while another brief
\* keeps its rows
C22_Witness ==
  /\ lastRun.op = "handleDelete" /\ lastRun.toast = "deleted"
  /\ Len(lastRun.shown.recipients) = 2
  /\ \E b \in briefs : ResponsesOf(b.id) # {}

\* the last handleSubmit resolved an empty recipient list
EmptySubmission ==
  /\ submitted.done
  /\ lastRun.op = "handleSubmit"
  /\ submitted.recipients = <<>>

\* C23: if the resolved recipient list is empty, handleSubmit inserts no
\* brief row and no response row, shows an error notification, and leaves
\* the form contents, the selections and the open modal unchanged.
C23_EmptyListRejected ==
  [][(modalOpen /\ ResolveRecipients(formData.selectedMembers, formData.manualMembers,
                                     formData.customEmails) = <<>>
      /\ lastRun'.op = "handleSubmit") =>
        /\ briefs' = briefs
        /\ responses' = responses
        /\ lastRun'.calls = <<>>
        /\ lastRun'.toast = "error"
        /\ formData' = formData
        /\ selectedTeams' = selectedTeams
        /\ modalOpen']_vars

\* blanks in the manual row and blanks and commas in the custom field, a
\* team checked with none of its members: nothing to send to
C23_Witness ==
  /\ EmptySubmission
  /\ submitted.form.manualMembers = <<<<" ">>>>
  /\ submitted.form.customEmails = <<" ", ",">>
  /\ selectedTeams = <<1>>
  /\ lastRun.toast = "error"
  /\ modalOpen

\* C24: every brief row created by handleSubmit is stored with a non-empty,
\* duplicate-free recipients list and with total_recipients equal to the
\* length of that list.
C24_StoredRecipientsWellFormed ==
  \A b \in briefs :
    /\ b.recipients # <<>>
    /\ NoDuplicates(b.recipients)
    /\ b.total_recipients = Len(b.recipients)

\* the emails of the teams checked in the modal
SelectedTeamEmails ==
  UNION {Range(teamEmails(t)) : t \in {x \in modalTeams : x.id \in Range(selectedTeams)}}

\* C25: after any sequence of handleTeamSelect and handleMemberToggle
\* operations while the modal is open, selectedMembers contains no email
\* twice and every selected email belongs to a currently selected team.
C25_SelectionWithinSelectedTeams ==
  modalOpen =>
    /\ NoDuplicates(formData.selectedMembers)
    /\ Range(formData.selectedMembers) \subseteq SelectedTeamEmails

\* two teams that share a member, but not all members, are both checked
C25_Witness ==
  /\ modalOpen
  /\ Len(selectedTeams) = 2
  /\ \E t1, t2 \in modalTeams :
       /\ t1.id # t2.id
       /\ Range(teamEmails(t1)) \cap Range(teamEmails(t2)) # {}
       /\ Range(teamEmails(t1)) # Range(teamEmails(t2))
  /\ Len(formData.selectedMembers) = 2
  /\ lastRun.op = "handleTeamSelect"

\* C26: for every team row written by the application, whenever
\* member_details is non-empty its email addresses are the team's members
\* list.
C26_DetailsAgreeWithMembers ==
  \A t \in teams :
    t.member_details # <<>> => DetailEmails(t.member_details) = t.members

\* C27: if two handleNotificationChange calls for different preference keys
\* both succeed, the stored notification_preferences reflect both changes
\* and keep the third key unchanged, for every interleaving of the two.
C27_BothChangesStored ==
  \A c1, c2 \in Calls :
    (/\ c1 # c2
     /\ notifCalls[c1].pc = "done" /\ notifCalls[c2].pc = "done"
     /\ notifCalls[c1].key # notifCalls[c2].key) =>
       /\ storedPrefs[notifCalls[c1].key] = notifCalls[c1].value
       /\ storedPrefs[notifCalls[c2].key] = notifCalls[c2].value
       /\ \A k \in Keys \ {notifCalls[c1].key, notifCalls[c2].key} :
            storedPrefs[k] = DefaultPrefs[k]

\* C28: once profile updates have stopped, the profile shown by AppLayout
\* and by AppSidebar eventually equals the stored profile, and stays so.
C28_LayoutEventuallyShowsStored ==
  <>[](\A c \in Components : layoutProfile[c] = StoredName(user[LayoutSession]))

====
